---------------------------- MODULE Spec2Model ----------------------------
(***************************************************************************)
(* A model of the wikitext serializer of lib/html2wt/WikitextSerializer.js *)
(* (handler selection, attribute serialization, template emission, the     *)
(* selser reuse decision, the DOM walker, the extension handler, text      *)
(* emission inside HTML tags and the post-pass over the output).           *)
(*                                                                         *)
(* Each part of the serializer has a specification of its own:             *)
(*   SpecHandler  _getDOMHandler                                           *)
(*   SpecAttrs    _serializeAttributes                                     *)
(*   SpecTpl      _buildTemplateWT                                         *)
(*   SpecSelser   _serializeDOMNode                                        *)
(*   SpecWalk     _serializeNode driven by state.serializeChildren         *)
(*   SpecExt      defaultExtensionHandler                                  *)
(*   SpecPost     the post-pass of serializeDOM, applied twice             *)
(*   SpecHtml     _serializeHTMLTag, _serializeTextNode,                   *)
(*                _serializeHTMLEndTag                                     *)
(*   SpecNested   _serializeDOMNode over an element and its descendants    *)
(*   SpecParse    parse, startsAtHTML and startsAtWikitext of bin/parse.js *)
(* The variables of the parts a specification does not exercise stay at    *)
(* their idle values.                                                      *)
(***************************************************************************)
EXTENDS Integers, Sequences, FiniteSets, TLC

VARIABLES
    \* ---- _getDOMHandler ----
    hNode,      \* the node passed to _getDOMHandler
    hReg,       \* the keys registered in tagHandlers
    hPc,        \* "start" | "done" | "idle"
    hResult,    \* the handler returned
    \* ---- _serializeAttributes ----
    aAttribs,   \* token.attribs: a sequence of [k, v]
    aHasDP,     \* node.getAttribute("data-parsoid") is truthy
    aDA,        \* token.dataAttribs: [a, sa]
    aTplAttrs,  \* DU.getDataMw(node).attribs
    aIdx,       \* the attribute Promise.reduce is at
    aOut,       \* the out array
    aPending,   \* what the suspended Promise.join of lines 293-300 resolves to
    aPc,        \* "reduce" | "spread" | "done" | "idle"
    aWarn,      \* the warning/html2wt lines logged
    aResult,    \* the string returned
    \* ---- _buildTemplateWT ----
    tSrcParts,  \* srcParts: strings and the transclusion part
    tKeys,      \* Object.keys(tpl.params), taken when the part starts
    tParams,    \* tpl.params
    tDpPi,      \* dp.pi[tpl.i]
    tHasI,      \* dp.pi && tpl.i !== undefined
    tPartIdx,   \* the part Promise.reduce is at
    tPc,        \* "part" | "old" | "new" | "done" | "idle"
    tIdx,       \* the entry of paramInfos or of keys the inner reduce is at
    tNumericIndex, \* numericIndex
    tArgBuf,    \* argBuf
    tBuf,       \* buf
    \* ---- _serializeDOMNode ----
    sNode,      \* the node and its data-parsoid, diff marks included
    sSelserMode,           \* state.selserMode
    sInModifiedContent,    \* state.inModifiedContent
    sCurrNodeUnmodified,   \* state.currNodeUnmodified
    sConstraintInfo,       \* state.sep.constraints.constraintInfo
    sEntry,     \* the node and state.inModifiedContent as the call found them
    sLocal,     \* the locals the .then callback closes over
    sOut,       \* the chunks handed to state.emitChunk
    sHandleCalls,          \* the calls of domHandler.handle
    sPc,        \* "start" | "handling" | "done" | "failed" | "idle"
    sNext,      \* what the returned promise resolves to
    \* ---- _serializeNode ----
    wParent,    \* node.parentNode of the nodes below the body
    wKind,      \* what each node is
    wSelserMode,           \* state.selserMode
    wTasks,     \* the pending continuations: one stack of frames each
    wOut,       \* state.out: the chunks and the separators emitted
    wSep,       \* state.sep: the pending separator
    wPrevNodeUnmodified,   \* state.prevNodeUnmodified
    wCurrNodeUnmodified,   \* state.currNodeUnmodified
    wSuspended, \* the nodes whose handler has waited
    wPc,        \* "walking" | "done" | "idle"
    wLog,       \* what _serializeNode has done for each node, in order
    \* ---- defaultExtensionHandler ----
    eDataMW,    \* dataMW: [attrs, hasBody, html, id, extsrc]
    eNode,      \* the node: its about and typeof, its first a[href]
    eDocs,      \* what getElementById finds in each document
    eExtTok,    \* the keys of extTok's attributes
    eSrcParts,  \* srcParts
    eHtmlText,  \* htmlText, while its serializeHTML is pending
    eLog,       \* the log types of the errors logged
    ePc,        \* "start" | "attrs" | "body" | "close" | "join" | "done" | "failed" | "idle"
    eResult,    \* the string returned
    \* ---- serializeDOM's post-pass over state.out ----
    pOut,       \* state.out: the lines of the buffer, each a sequence of atoms
    pFlags,     \* hasIndentPreNowikis, hasQuoteNowikis, hasSelfClosingNowikis,
                \* selserMode, scrubWikitext
    pPc,        \* "indentPre" | "quote" | "trailing" | "done" | "idle"
    pRound,     \* which application of the post-pass this is
    \* ---- an HTML-syntax element and its text: _serializeHTMLTag,
    \*      _serializeTextNode, _serializeHTMLEndTag ----
    xNode,      \* the element: its name, wrapperUnmodified
    xKids,      \* its child nodes: text nodes (nodeValue) and elements
    xNext,      \* the place of the child serialized next
    xSelserMode,            \* state.selserMode
    xInHTMLPre,             \* state.inHTMLPre
    xInNoWiki,              \* state.inNoWiki
    xInIndentPre,           \* state.inIndentPre
    xEscapeText,            \* state.escapeText
    xOnSOL,                 \* state.onSOL
    xCurrNodeUnmodified,    \* state.currNodeUnmodified
    xSep,       \* state.sep.src: [has, src]
    xChunks,    \* the chunks given to state.emitChunk, with the flags it saw
    xPc,        \* "open" | "opened" | "children" | "done" | "failed" | "idle"
    \* ---- _serializeDOMNode over a subtree: state.inModifiedContent ----
    mParent,    \* the tree: the parent of each element
    mNode,      \* the elements: data-parsoid and diff marks
    mSelserMode,            \* state.selserMode
    mInModifiedContent,     \* state.inModifiedContent
    mStack,     \* the handlers that are running, with their closures' flag
    mCur,       \* the child serializeChildren is at (Body: none left)
    mReused,    \* the elements emitted from original source
    mPc,        \* "walking" | "done" | "failed" | "idle"
    \* ---- bin/parse.js: parse, startsAtHTML, startsAtWikitext ----
    rArgv,      \* argv: the mode flags and the output options
    rInput,     \* what the stage that runs next is given
    rStages,    \* the stages that have run: "parse" and "serialize"
    rResult,    \* what the returned promise resolves to
    rPc         \* "parse" | "startsAtHTML" | "startsAtWikitext" | "done" | "idle"

hvars == <<hNode, hReg, hPc, hResult>>
avars == <<aAttribs, aHasDP, aDA, aTplAttrs, aIdx, aOut, aPending, aPc, aWarn,
           aResult>>

tvars == <<tSrcParts, tKeys, tParams, tDpPi, tHasI, tPartIdx, tPc, tIdx,
           tNumericIndex, tArgBuf, tBuf>>

svars == <<sNode, sSelserMode, sInModifiedContent, sCurrNodeUnmodified,
           sConstraintInfo, sEntry, sLocal, sOut, sHandleCalls, sPc, sNext>>

wvars == <<wParent, wKind, wSelserMode, wTasks, wOut, wSep,
           wPrevNodeUnmodified, wCurrNodeUnmodified, wSuspended, wPc,
           wLog>>

evars == <<eDataMW, eNode, eDocs, eExtTok, eSrcParts, eHtmlText, eLog, ePc,
           eResult>>

pvars == <<pOut, pFlags, pPc, pRound>>

xvars == <<xNode, xKids, xNext, xSelserMode, xInHTMLPre, xInNoWiki,
           xInIndentPre, xEscapeText, xOnSOL, xCurrNodeUnmodified,
           xSep, xChunks, xPc>>

mvars == <<mParent, mNode, mSelserMode, mInModifiedContent, mStack, mCur,
           mReused, mPc>>

rvars == <<rArgv, rInput, rStages, rResult, rPc>>

vars == <<hvars, avars, tvars, svars, wvars, evars, pvars, xvars, mvars, rvars>>

\* What an action of one part leaves alone: the variables of the other parts
notH == <<avars, tvars, svars, wvars, evars, pvars, xvars, mvars, rvars>>
notA == <<hvars, tvars, svars, wvars, evars, pvars, xvars, mvars, rvars>>
notT == <<hvars, avars, svars, wvars, evars, pvars, xvars, mvars, rvars>>
notS == <<hvars, avars, tvars, wvars, evars, pvars, xvars, mvars, rvars>>
notW == <<hvars, avars, tvars, svars, evars, pvars, xvars, mvars, rvars>>
notE == <<hvars, avars, tvars, svars, wvars, pvars, xvars, mvars, rvars>>
notP == <<hvars, avars, tvars, svars, wvars, evars, xvars, mvars, rvars>>
notX == <<hvars, avars, tvars, svars, wvars, evars, pvars, mvars, rvars>>
notM == <<hvars, avars, tvars, svars, wvars, evars, pvars, xvars, rvars>>
notR == <<hvars, avars, tvars, svars, wvars, evars, pvars, xvars, mvars>>

(***************************************************************************)
(* Handler selection: WSP._getDOMHandler                                   *)
(***************************************************************************)

\* JS undefined, as string concatenation renders it (nodeName + '_' + dp.stx)
Undefined == "undefined"

NodeNames == {"DD", "LI", "TD", "A", "PRE", "DIV"}
ParentNames == {"#document-fragment", "BODY", "DL", "UL", "TR", "DIV"}
StxValues == {Undefined, "html", "row"}

toLowerCase(name) ==
    CASE name = "DD" -> "dd"
      [] name = "LI" -> "li"
      [] name = "TD" -> "td"
      [] name = "A" -> "a"
      [] name = "PRE" -> "pre"
      [] name = "DIV" -> "div"
      [] OTHER -> name

\* The handlers: a registered handler is named by its registry key
htmlElementHandler == "htmlElementHandler"
encapsulatedContentHandler == "encapsulatedContentHandler"
NoHandler == "{}"
Null == "null"

\* The keys tagHandlers may hold
RegistryKeys == {"dd_row", "pre_html", "dd", "li", "a"}

tagHandlersGet(reg, key) == IF key \in reg THEN key ELSE Undefined

isElt(n) == n.kind = "elt"

_getEncapsulatedContentHandler(n) ==
    IF n.encap THEN encapsulatedContentHandler ELSE Null

isNewElt(n) == isElt(n) /\ n.isNew

atTheTop(n) == n.kind = "fragment" \/ (isElt(n) /\ n.nodeName = "BODY")

isDocumentFragment(name) == name = "#document-fragment"

isList(name) == name \in {"DL", "UL", "OL"}

isListItem(name) == name \in {"LI", "DD", "DT"}

ParentTableTags == {"TABLE", "TBODY", "THEAD", "TFOOT", "TR"}

ChildTableTags == {"TBODY", "THEAD", "TFOOT", "TR", "CAPTION", "TH", "TD"}

\* lines 675-684: a new element under an html-syntax list or table
NewEltInHTMLParent(n) ==
    /\ isNewElt(n) /\ ~atTheTop(n)
    /\ ~isDocumentFragment(n.parentName)
    /\ n.parentStx = "html"
    /\ \/ (isList(n.parentName) /\ isListItem(n.nodeName))
       \/ (n.parentName \in ParentTableTags /\ n.nodeName \in ChildTableTags)

\* A faulty variant: the html-syntax shortcut taken even when a specialized handler exists
HTMLStxShortcut_Unguarded(n, handler) ==
    n.stx = "html" /\ toLowerCase(n.nodeName) # "a"

\* line 671
HTMLStxShortcut(n, handler) ==
    handler = Undefined /\ n.stx = "html" /\ toLowerCase(n.nodeName) # "a"

\* A faulty variant: the registry is consulted before the parent's syntax
PickHandler_RegistryFirst(n, reg, handler) ==
    IF handler # Undefined THEN handler
    ELSE IF HTMLStxShortcut(n, handler) THEN htmlElementHandler
    ELSE IF NewEltInHTMLParent(n) THEN htmlElementHandler
    ELSE IF tagHandlersGet(reg, toLowerCase(n.nodeName)) # Undefined
         THEN tagHandlersGet(reg, toLowerCase(n.nodeName))
    ELSE htmlElementHandler

\* lines 669-687, given handler = tagHandlers.get(nodeName + '_' + dp.stx)
PickHandler(n, reg, handler) ==
    IF HTMLStxShortcut(n, handler) THEN htmlElementHandler
    ELSE IF NewEltInHTMLParent(n) THEN htmlElementHandler
    ELSE IF handler # Undefined THEN handler
    ELSE IF tagHandlersGet(reg, toLowerCase(n.nodeName)) # Undefined
         THEN tagHandlersGet(reg, toLowerCase(n.nodeName))
    ELSE htmlElementHandler

\* A faulty variant: no generic handler where nothing is registered
_getDOMHandler_RegisteredOnly(n, reg) ==
    IF n.kind = "null" \/ ~isElt(n) THEN NoHandler
    ELSE IF _getEncapsulatedContentHandler(n) # Null
         THEN _getEncapsulatedContentHandler(n)
    ELSE IF tagHandlersGet(reg, toLowerCase(n.nodeName) \o "_" \o n.stx)
               # Undefined
         THEN tagHandlersGet(reg, toLowerCase(n.nodeName) \o "_" \o n.stx)
    ELSE tagHandlersGet(reg, toLowerCase(n.nodeName))

\* Lines 656-688
_getDOMHandler(n, reg) ==
    IF n.kind = "null" \/ ~isElt(n) THEN NoHandler
    ELSE IF _getEncapsulatedContentHandler(n) # Null
         THEN _getEncapsulatedContentHandler(n)
    ELSE PickHandler(n, reg,
             tagHandlersGet(reg, toLowerCase(n.nodeName) \o "_" \o n.stx))

HandlerNodes ==
    [kind : {"elt"}, nodeName : NodeNames, stx : StxValues,
     encap : BOOLEAN, isNew : BOOLEAN,
     parentName : ParentNames, parentStx : {Undefined, "html"}]
    \cup
    [kind : {"null", "text"}, nodeName : {"#text"}, stx : {Undefined},
     encap : {FALSE}, isNew : {FALSE},
     parentName : {"BODY"}, parentStx : {Undefined}]

HandlerInit ==
    /\ hNode \in HandlerNodes
    /\ hReg \in SUBSET RegistryKeys
    /\ hPc = "start"
    /\ hResult = Null

GetDOMHandler ==
    /\ hPc = "start"
    /\ hResult' = _getDOMHandler(hNode, hReg)
    /\ hPc' = "done"
    /\ UNCHANGED <<hNode, hReg, notH>>

(***************************************************************************)
(* Attribute serialization: WSP._serializeAttributes                       *)
(***************************************************************************)

\* The longest attribute list serialized
MaxAttrs == 2

IGNORED_ATTRIBUTES ==
    {"data-parsoid", "data-ve-changed", "data-parsoid-changed",
     "data-parsoid-diff", "data-parsoid-serialize"}

\* The attributes a token may carry
AttrCases ==
    { [k |-> "class", v |-> "foo"],
      [k |-> "id", v |-> "mwAB"],
      [k |-> "id", v |-> "main"],
      [k |-> "data-parsoid", v |-> "{}"],
      [k |-> "data-mw", v |-> "{}"],
      [k |-> "data-x-data-mw", v |-> "{}"],
      [k |-> "about", v |-> "#mwt1"],
      [k |-> "typeof", v |-> "mw:Image x"],
      [k |-> "style", v |-> "a&\"b"],
      [k |-> "", v |-> "bare"] }

\* /^mw[\w-]{2,}$/.test(v), on the values of AttrCases
IsParsoidId(v) == v \in {"mwAB"}

\* PARSOID_ATTRIBUTES.get(k) is defined and kv.v.match(it)
MatchesParsoidValue(k, v) ==
    \/ (k = "about" /\ v \in {"#mwt1"})
    \/ (k = "typeof" /\ v \in {"mw:Image x"})

\* kv.v.replace(parsoidValueRegExp, '')
StripParsoidValue(k, v) ==
    CASE k = "about" /\ v = "#mwt1" -> ""
      [] k = "typeof" /\ v = "mw:Image x" -> " x"
      [] OTHER -> v

\* s.replace(/"/g, '&quot;')
ReplaceQuot(s) ==
    CASE s = "a&\"b" -> "a&&quot;b"
      [] s = "a&amp;\"b" -> "a&amp;&quot;b"
      [] OTHER -> s

\* Util.escapeEntities
escapeEntities(s) ==
    CASE s = "a&\"b" -> "a&amp;\"b"
      [] OTHER -> s

\* kk.replace(/^data-x-/i, '')
StripDataX(k) ==
    CASE k = "data-x-data-mw" -> "data-mw"
      [] OTHER -> k

\* kk.match(/[{<]/)
HasBraceOrAngle(k) == k \in {"{{echo|k}}"}

\* serializeHTML of an attribute's generated key or value: text serializes to
\* itself, a transclusion to its wikitext
serializeHTML(html) ==
    CASE html = "<span typeof=\"mw:Transclusion\"></span>" -> "{{echo|k}}"
      [] OTHER -> html

\* data-mw.attribs records: [[{txt, html}, {html}], ...]
TplAttrsChoices ==
    { <<>>,
      <<[txt |-> "class", khtml |-> "data-parsoid", vhtml |-> "foo"]>>,
      <<[txt |-> "class",
         khtml |-> "<span typeof=\"mw:Transclusion\"></span>", vhtml |-> ""]>>,
      <<[txt |-> "style", khtml |-> Null, vhtml |-> ""]>> }

\* lines 103-119
RECURSIVE getAttributeKeyFrom(_, _, _)
getAttributeKeyFrom(tplAttrs, i, key) ==
    IF i > Len(tplAttrs) THEN key
    ELSE IF tplAttrs[i].txt = key /\ tplAttrs[i].khtml \notin {Null, ""}
         THEN serializeHTML(tplAttrs[i].khtml)
    ELSE getAttributeKeyFrom(tplAttrs, i + 1, key)

getAttributeKey(tplAttrs, key) == getAttributeKeyFrom(tplAttrs, 1, key)

\* lines 121-142 (a[0] is a {txt, html} record here, never the key string)
RECURSIVE getAttributeValueFrom(_, _, _, _)
getAttributeValueFrom(tplAttrs, i, key, value) ==
    IF i > Len(tplAttrs) THEN value
    ELSE IF tplAttrs[i].txt = key /\ tplAttrs[i].vhtml # Null
         THEN serializeHTML(tplAttrs[i].vhtml)
    ELSE getAttributeValueFrom(tplAttrs, i + 1, key, value)

getAttributeValue(tplAttrs, key, value) ==
    getAttributeValueFrom(tplAttrs, 1, key, value)

\* token.dataAttribs: whether a and sa are present, the keys of a (in
\* Object.keys order) and the entries of sa
DataAttribs(hasA, a, hasSa, sa) ==
    [hasA |-> hasA, a |-> a, hasSa |-> hasSa, sa |-> sa]

DataAttribsChoices ==
    { DataAttribs(FALSE, <<>>, FALSE, {}),
      DataAttribs(TRUE, <<"style">>, FALSE, {}),
      DataAttribs(TRUE, <<"style">>, TRUE, {[k |-> "style", v |-> "color:red"]}),
      DataAttribs(TRUE, <<"data-mw", "style">>, TRUE,
                  {[k |-> "data-mw", v |-> "{}"]}),
      DataAttribs(TRUE, <<"class">>, TRUE,
                  {[k |-> "class", v |-> "foo"], [k |-> "title", v |-> "a&\"b"]}) }

saKeys(da) == {e.k : e \in da.sa}

\* dataAttribs.sa[k]
saGet(da, k) ==
    IF k \in saKeys(da) THEN (CHOOSE e \in da.sa : e.k = k).v ELSE Undefined

\* token.getAttributeShadowInfo(k): what the token's provenance may say of
\* the attribute's value
ShadowInfos(da, k, v) ==
    { [value |-> v, modified |-> m, fromsrc |-> FALSE] : m \in BOOLEAN }
    \cup
    { [value |-> IF k \in saKeys(da) THEN saGet(da, k) ELSE v,
       modified |-> m, fromsrc |-> TRUE] : m \in BOOLEAN }

\* Util.lookupKV(attribs, k)
lookupKV(attribs, k) == \E i \in 1..Len(attribs) : attribs[i].k = k

\* An element of the out array: the string pushed, the key it renders, and
\* where it comes from (a live attribute, by index, or the restoration)
OutEntry(str, key, from, idx, vInfo) ==
    [str |-> str, key |-> key, from |-> from, idx |-> idx, vInfo |-> vInfo]

NoInfo == [value |-> Null, modified |-> FALSE, fromsrc |-> FALSE]

NoPending == [kk |-> Null, vv |-> Null, vInfo |-> NoInfo]

\* A faulty variant: only the IGNORED_ATTRIBUTES set is consulted
UnconditionallyIgnored_SetOnly(k) == k \in IGNORED_ATTRIBUTES

\* line 254
UnconditionallyIgnored(k) == k \in IGNORED_ATTRIBUTES \/ k = "data-mw"

\* A faulty variant: a modified id is kept as long as it is from source
ParsoidIdKept_IgnoresModified(vInfo) == vInfo.fromsrc

\* line 269
ParsoidIdKept(vInfo) == ~vInfo.modified /\ vInfo.fromsrc

\* A faulty variant: every key of dataAttribs.a is restored
SanitizedAway_All(attribs, k) == TRUE

\* line 339
SanitizedAway(attribs, k) == ~lookupKV(attribs, k)

\* lines 333-349: the entries the restoration pushes for aKeys[i..]
RECURSIVE RestoredFrom(_, _, _)
RestoredFrom(attribs, da, i) ==
    IF i > Len(da.a) THEN <<>>
    ELSE LET k == da.a[i]
             v == saGet(da, k)
             rest == RestoredFrom(attribs, da, i + 1)
         IN IF SanitizedAway(attribs, k)
            THEN IF v \notin {Undefined, ""}
                 THEN <<OutEntry(k \o "=" \o "\"" \o ReplaceQuot(v) \o "\"",
                                 k, "restored", i, NoInfo)>> \o rest
                 ELSE <<OutEntry(k, k, "restored", i, NoInfo)>> \o rest
            ELSE rest

Restored(attribs, da) ==
    IF da.hasA /\ da.hasSa THEN RestoredFrom(attribs, da, 1) ELSE <<>>

\* out.join(' ')
RECURSIVE JoinFrom(_, _, _)
JoinFrom(strs, i, sep) ==
    IF i > Len(strs) THEN ""
    ELSE IF i = Len(strs) THEN strs[i]
    ELSE strs[i] \o sep \o JoinFrom(strs, i + 1, sep)

Join(strs, sep) == JoinFrom(strs, 1, sep)

OutStrings(out) == [i \in 1..Len(out) |-> out[i].str]

RECURSIVE SeqsUpTo(_, _)
SeqsUpTo(S, n) ==
    IF n = 0 THEN {<<>>}
    ELSE LET shorter == SeqsUpTo(S, n - 1)
         IN shorter \cup {Append(s, x) : s \in shorter, x \in S}

AttrsInit ==
    /\ aAttribs \in SeqsUpTo(AttrCases, MaxAttrs)
    /\ aHasDP \in BOOLEAN
    /\ aDA \in DataAttribsChoices
    /\ aTplAttrs \in TplAttrsChoices
    /\ aIdx = 1 /\ aOut = <<>> /\ aPending = NoPending
    /\ aPc = "reduce" /\ aWarn = 0 /\ aResult = Null

\* lines 247-323: one call of the Promise.reduce callback, up to its return
AttrReduce ==
    /\ aPc = "reduce" /\ aIdx <= Len(aAttribs)
    /\ LET kv == aAttribs[aIdx]
           k == kv.k
       IN IF UnconditionallyIgnored(k)
          THEN /\ aIdx' = aIdx + 1
               /\ UNCHANGED <<aOut, aPending, aPc, aWarn>>
          ELSE IF k = "id" /\ IsParsoidId(kv.v)
          THEN IF ~aHasDP
               THEN /\ aWarn' = aWarn + 1
                    /\ aIdx' = aIdx + 1
                    /\ UNCHANGED <<aOut, aPending, aPc>>
               ELSE \E vInfo \in ShadowInfos(aDA, k, kv.v) :
                    /\ aOut' = IF ParsoidIdKept(vInfo)
                               THEN Append(aOut, OutEntry(
                                   k \o "=" \o "\"" \o ReplaceQuot(vInfo.value) \o "\"",
                                   k, "live", aIdx, vInfo))
                               ELSE aOut
                    /\ aIdx' = aIdx + 1
                    /\ UNCHANGED <<aPending, aPc, aWarn>>
          ELSE IF MatchesParsoidValue(k, kv.v)
          THEN /\ aOut' = IF StripParsoidValue(k, kv.v) # ""
                          THEN Append(aOut, OutEntry(
                              k \o "=" \o "\"" \o StripParsoidValue(k, kv.v) \o "\"",
                              k, "live", aIdx, NoInfo))
                          ELSE aOut
               /\ aIdx' = aIdx + 1
               /\ UNCHANGED <<aPending, aPc, aWarn>>
          ELSE IF k # ""
          THEN \E vInfo \in ShadowInfos(aDA, k, kv.v) :
               /\ aPending' = [kk |-> getAttributeKey(aTplAttrs, k),
                               vv |-> getAttributeValue(aTplAttrs, kv.k, vInfo.value),
                               vInfo |-> vInfo]
               /\ aPc' = "spread"
               /\ UNCHANGED <<aIdx, aOut, aWarn>>
          ELSE /\ aOut' = IF kv.v # ""
                          THEN Append(aOut, OutEntry(kv.v, kv.v, "live", aIdx, NoInfo))
                          ELSE aOut
               /\ aIdx' = aIdx + 1
               /\ UNCHANGED <<aPending, aPc, aWarn>>
    /\ UNCHANGED <<aAttribs, aHasDP, aDA, aTplAttrs, aResult, notA>>

\* lines 300-317: the spread callback, once key and value are resolved
AttrSpread ==
    /\ aPc = "spread"
    /\ LET kk == StripDataX(aPending.kk)
           vInfo == aPending.vInfo
           vv == IF aPending.vv # "" /\ ~vInfo.fromsrc
                 THEN escapeEntities(aPending.vv) ELSE aPending.vv
       IN aOut' = Append(aOut,
              IF vv # ""
              THEN OutEntry(kk \o "=" \o "\"" \o ReplaceQuot(vv) \o "\"",
                            kk, "live", aIdx, vInfo)
              ELSE IF HasBraceOrAngle(kk)
              THEN OutEntry(kk, kk, "live", aIdx, vInfo)
              ELSE OutEntry(kk \o "=\"\"", kk, "live", aIdx, vInfo))
    /\ aIdx' = aIdx + 1
    /\ aPc' = "reduce"
    /\ aPending' = NoPending
    /\ UNCHANGED <<aAttribs, aHasDP, aDA, aTplAttrs, aWarn, aResult, notA>>

\* lines 324-352: the restoration of sanitized-away attributes and the join
AttrRestore ==
    /\ aPc = "reduce" /\ aIdx > Len(aAttribs)
    /\ aOut' = aOut \o Restored(aAttribs, aDA)
    /\ aResult' = Join(OutStrings(aOut'), " ")
    /\ aPc' = "done"
    /\ UNCHANGED <<aAttribs, aHasDP, aDA, aTplAttrs, aIdx, aPending, aWarn, notA>>

(***************************************************************************)
(* Template emission: WSP._buildTemplateWT                                 *)
(***************************************************************************)

\* The most parameters a template has, and the most entries of its pi record
MaxParams == 2
MaxPi == 2

\* The keys of tpl.params
ParamKeys == {"1", "2", "x", " x"}

\* k.trim(), on ParamKeys
TrimKey(k) == IF k = " x" THEN "x" ELSE k

\* numericIndex.toString()
NumToString(n) ==
    CASE n = 1 -> "1" [] n = 2 -> "2" [] n = 3 -> "3" [] n = 4 -> "4"
      [] OTHER -> "5"

\* A value of tpl.params: {wt} or {html}, with or without key.wt
Param(wt, html, keywt) ==
    [present |-> TRUE, wt |-> wt, html |-> html, keywt |-> keywt]

AbsentParam ==
    [present |-> FALSE, wt |-> Undefined, html |-> Undefined, keywt |-> Undefined]

\* The values a parameter of each key may have
ParamChoices(k) ==
    CASE k = "1" -> { Param("a", Undefined, Undefined),
                      Param("c=d", Undefined, Undefined),
                      Param("a", Undefined, "1 ") }
      [] k = "2" -> { Param(" b ", Undefined, Undefined),
                      Param(Undefined, "<i>h</i> ", Undefined) }
      [] k = "x" -> { Param("b", Undefined, Undefined),
                      Param(" b ", Undefined, Undefined) }
      [] OTHER -> { Param("a", Undefined, Undefined) }

ParamValues == UNION {ParamChoices(k) : k \in ParamKeys}

\* The entries of dp.pi[tpl.i]
ParamInfo(k, named, spc) == [k |-> k, named |-> named, spc |-> spc]

NoSpc == <<>>

ParamInfoCases ==
    { ParamInfo("1", FALSE, NoSpc),
      ParamInfo("1", TRUE, NoSpc),
      ParamInfo("2", FALSE, NoSpc),
      ParamInfo("x", FALSE, <<" ", "", "", " ">>) }

\* the nested serializeHTML of a parameter's html
serializeParamHTML(html) ==
    CASE html = "<i>h</i> " -> "''h'' "
      [] OTHER -> html

\* value.trim(), on the values the parameters above yield
TrimValue(v) ==
    CASE v = " b " -> "b"
      [] v = "''h'' " -> "''h''"
      [] OTHER -> v

\* wteHandlers.escapeTplArgWT(value, opts): the value is left as it is; an
\* argument meant to be positional is reported as named when its value holds
\* an '='
escapeTplArgWT(value, serializeAsNamed) ==
    [serializeAsNamed |-> serializeAsNamed \/ value \in {"c=d"}, v |-> value]

Range(s) == {s[i] : i \in 1..Len(s)}

IsDistinct(s) == \A i, j \in 1..Len(s) : s[i] = s[j] => i = j

\* lines 407-408
paramInfos(dpPi, hasI) == IF hasI THEN dpPi ELSE <<>>

\* lines 411-413
origKeys(infos) == [i \in 1..Len(infos) |-> infos[i].k]

\* A faulty variant: the named flag of pi is not consulted
serializeAsNamedOpt_IgnoresFlag(paramInfo, k, numericIndex) ==
    k # NumToString(numericIndex)

\* line 444
serializeAsNamedOpt(paramInfo, k, numericIndex) ==
    paramInfo.named \/ k # NumToString(numericIndex)

\* A faulty variant: every key of params is taken for a new one
IsNewParam_Always(infos, strippedK) == TRUE

\* line 524: origKeys.indexOf(strippedK) === -1
IsNewParam(infos, strippedK) == strippedK \notin Range(origKeys(infos))

\* A faulty variant: no spacing around the '='
DefaultSpc_NoSpaces == <<"", "", "", "">>

\* line 434: the ' = ' spacing of a parameter whose spc is not recorded
DefaultSpc == <<"", " ", " ", "">>

\* lines 425-510: the entry pushArg pushes for key k, and whether it was
\* pushed as a positional argument
pushArg(params, k, paramInfo, numericIndex) ==
    LET value == IF params[k].wt # Undefined THEN params[k].wt
                 ELSE serializeParamHTML(params[k].html)
        optNamed == serializeAsNamedOpt(paramInfo, k, numericIndex)
        escapedValue == escapeTplArgWT(value, optNamed)
        spc == IF paramInfo.spc # NoSpc THEN paramInfo.spc
               ELSE IF optNamed /\ k = "" THEN <<"", "", "", "">>
               ELSE DefaultSpc
        hasKeyWt == params[k].keywt # Undefined
        paramName == IF hasKeyWt THEN params[k].keywt ELSE k
        named == escapedValue.serializeAsNamed \/ hasKeyWt
    IN [str |-> IF named
                THEN spc[1] \o paramName \o spc[2] \o "=" \o spc[3] \o
                     TrimValue(escapedValue.v) \o spc[4]
                ELSE escapedValue.v,
        named |-> named,
        k |-> k,
        v |-> escapedValue.v,
        spc |-> spc,
        paramName |-> paramName,
        num |-> numericIndex,
        piNamed |-> paramInfo.named,
        hasKeyWt |-> hasKeyWt,
        oracleNamed |-> escapeTplArgWT(value, FALSE).serializeAsNamed]

NoParamInfo == ParamInfo(Undefined, FALSE, NoSpc)

TplPart == "{{template}}"

TplInit ==
    /\ tSrcParts \in {<<TplPart>>, <<"foo", TplPart>>}
    /\ tKeys \in {s \in SeqsUpTo(ParamKeys, MaxParams) : IsDistinct(s)}
    /\ tParams \in
          {p \in [ParamKeys -> ParamValues \cup {AbsentParam}] :
              \A k \in ParamKeys :
                  IF k \in Range(tKeys) THEN p[k] \in ParamChoices(k)
                  ELSE p[k] = AbsentParam}
    /\ \/ tHasI = TRUE /\ tDpPi \in SeqsUpTo(ParamInfoCases, MaxPi)
       \/ tHasI = FALSE /\ tDpPi = <<ParamInfo("1", FALSE, NoSpc)>>
    /\ tPartIdx = 1 /\ tPc = "part" /\ tIdx = 1
    /\ tNumericIndex = 1 /\ tArgBuf = <<>> /\ tBuf = ""

tInfos == paramInfos(tDpPi, tHasI)

\* lines 390-394: a part that is a string
TplStringPart ==
    /\ tPc = "part" /\ tPartIdx <= Len(tSrcParts)
    /\ tSrcParts[tPartIdx] # TplPart
    /\ tBuf' = tBuf \o tSrcParts[tPartIdx]
    /\ tPartIdx' = tPartIdx + 1
    /\ UNCHANGED <<tSrcParts, tKeys, tParams, tDpPi, tHasI, tPc, tIdx,
                   tNumericIndex, tArgBuf, notT>>

\* lines 395-423: a transclusion part, up to the first pushArg
TplStart ==
    /\ tPc = "part" /\ tPartIdx <= Len(tSrcParts)
    /\ tSrcParts[tPartIdx] = TplPart
    /\ IF Len(tKeys) = 0
       THEN /\ tBuf' = tBuf \o "{{" \o "echo" \o "}}"
            /\ tPartIdx' = tPartIdx + 1
            /\ UNCHANGED <<tPc, tIdx>>
       ELSE /\ tBuf' = tBuf \o "{{" \o "echo"
            /\ tPc' = "old" /\ tIdx' = 1
            /\ UNCHANGED tPartIdx
    /\ tNumericIndex' = 1 /\ tArgBuf' = <<>>
    /\ UNCHANGED <<tSrcParts, tKeys, tParams, tDpPi, tHasI, notT>>

\* lines 514-519: one pre-existing parameter, in pi order
TplOldParam ==
    /\ tPc = "old" /\ tIdx <= Len(tInfos)
    /\ LET k == tInfos[tIdx].k
       IN IF tParams[k].present
          THEN LET e == pushArg(tParams, k, tInfos[tIdx], tNumericIndex)
               IN /\ tArgBuf' = Append(tArgBuf, e)
                  /\ tNumericIndex' = IF e.named THEN tNumericIndex
                                      ELSE tNumericIndex + 1
          ELSE UNCHANGED <<tArgBuf, tNumericIndex>>
    /\ tIdx' = tIdx + 1
    /\ UNCHANGED <<tSrcParts, tPartIdx, tKeys, tParams, tDpPi, tHasI, tPc,
                   tBuf, notT>>

\* line 519: the pre-existing parameters are done
TplOldDone ==
    /\ tPc = "old" /\ tIdx > Len(tInfos)
    /\ tPc' = "new" /\ tIdx' = 1
    /\ UNCHANGED <<tSrcParts, tPartIdx, tKeys, tParams, tDpPi, tHasI,
                   tNumericIndex, tArgBuf, tBuf, notT>>

\* lines 521-531: one key of params, in Object.keys order
TplNewParam ==
    /\ tPc = "new" /\ tIdx <= Len(tKeys)
    /\ LET k == tKeys[tIdx]
           strippedK == TrimKey(k)
           copied == IF strippedK # k
                     THEN [tParams EXCEPT ![strippedK] = tParams[k]]
                     ELSE tParams
       IN IF IsNewParam(tInfos, strippedK)
          THEN LET e == pushArg(copied, strippedK, NoParamInfo, tNumericIndex)
               IN /\ tParams' = copied
                  /\ tArgBuf' = Append(tArgBuf, e)
                  /\ tNumericIndex' = IF e.named THEN tNumericIndex
                                      ELSE tNumericIndex + 1
          ELSE UNCHANGED <<tParams, tArgBuf, tNumericIndex>>
    /\ tIdx' = tIdx + 1
    /\ UNCHANGED <<tSrcParts, tPartIdx, tKeys, tDpPi, tHasI, tPc, tBuf, notT>>

ArgStrings(argBuf) == [i \in 1..Len(argBuf) |-> argBuf[i].str]

\* lines 532-537: the arguments joined by pipes
TplJoin ==
    /\ tPc = "new" /\ tIdx > Len(tKeys)
    /\ tBuf' = tBuf \o "|" \o Join(ArgStrings(tArgBuf), "|") \o "}}"
    /\ tPc' = "part" /\ tPartIdx' = tPartIdx + 1
    /\ UNCHANGED <<tSrcParts, tKeys, tParams, tDpPi, tHasI, tIdx,
                   tNumericIndex, tArgBuf, notT>>

\* line 538: buf is returned
TplReturn ==
    /\ tPc = "part" /\ tPartIdx > Len(tSrcParts)
    /\ tPc' = "done"
    /\ UNCHANGED <<tSrcParts, tPartIdx, tKeys, tParams, tDpPi, tHasI, tIdx,
                   tNumericIndex, tArgBuf, tBuf, notT>>

(***************************************************************************)
(* The selser reuse decision: WSP._serializeDOMNode                        *)
(***************************************************************************)

\* The largest source offset a dsr holds
MaxOffset == 1

\* dp.dsr: undefined, or an array of len 0, 2 ([s, e]) or 4 ([s, e, ow, cw])
Dsr(kind, len, s, e) == [kind |-> kind, len |-> len, s |-> s, e |-> e]

UndefinedDsr == Dsr("undefined", 0, 0, 0)

\* dp.dsr || []
EmptyDsr == Dsr("array", 0, 0, 0)

DsrCases ==
    {UndefinedDsr, EmptyDsr}
        \cup {Dsr("array", len, s, e) :
                len \in {2, 4}, s \in -1..MaxOffset, e \in 0..MaxOffset}

\* The marks data-parsoid-diff can hold on a node
DiffCases == {{}, {"subtree-changed"}, {"inserted"}}

SelserNodeNames == {"P", "BR", "OL", "TD", "TABLE"}

\* An element with its data-parsoid, its diff marks and what DU answers
\* about its place in the document
SelserNodes ==
    {n \in [nodeName : SelserNodeNames, dsr : DsrCases,
            fostered : BOOLEAN, misnested : BOOLEAN,
            autoInsertedStart : BOOLEAN, autoInsertedEnd : BOOLEAN,
            diff : DiffCases, origSrcValid : BOOLEAN,
            encapWrapper : BOOLEAN, hasChildren : BOOLEAN,
            firstInDD : BOOLEAN] :
        /\ n.firstInDD => n.nodeName = "TABLE"
        /\ n.hasChildren => n.nodeName # "BR"}

\* Util.isValidDSR: 0 <= start <= end
isValidDSR(dsr) ==
    dsr.kind = "array" /\ dsr.len >= 2 /\ 0 <= dsr.s /\ dsr.s <= dsr.e

\* WTSUtils.hasValidTagWidths: the open and close widths are there
hasValidTagWidths(dsr) == dsr.kind = "array" /\ dsr.len = 4

origSrcValidInEditedContext(n) == n.origSrcValid

hasDiffMarkers(n) == n.diff # {}

onlySubtreeChanged(n) ==
    n.diff # {} /\ n.diff \subseteq {"subtree-changed", "children-changed"}

hasInsertedDiffMark(n) == "inserted" \in n.diff

isFirstEncapsulationWrapperNode(n) == n.encapWrapper

\* DU.isZeroWidthWikitextElt: a node with zero DSR width
isZeroWidthWikitextElt(n) == n.dsr.len >= 2 /\ n.dsr.s = n.dsr.e

\* dp.dsr = dp.dsr || []
DefaultDsr(n) ==
    IF n.dsr.kind = "undefined" THEN [n EXCEPT !.dsr = EmptyDsr] ELSE n

\* Lines 832-840: positive width, or one of the zero-width cases
WidthCondition(n) ==
    \/ n.dsr.e > n.dsr.s
    \/ n.dsr.e = n.dsr.s /\ n.nodeName \in {"P", "BR", "OL"}
    \/ n.fostered
    \/ n.misnested

\* A faulty variant: the validity of the DSR is not consulted
SourceReusable_IgnoresDSRValidity(n, selserMode, inModifiedContent) ==
    /\ selserMode
    /\ ~inModifiedContent
    /\ origSrcValidInEditedContext(n)
    /\ WidthCondition(n)

\* The condition of lines 828-840
SourceReusable(n, selserMode, inModifiedContent) ==
    /\ selserMode
    /\ ~inModifiedContent
    /\ origSrcValidInEditedContext(n)
    /\ isValidDSR(n.dsr)
    /\ WidthCondition(n)

\* A faulty variant: auto-inserted tags are not looked at
WrapperUnmodified_IgnoresAutoInserted(n) ==
    /\ onlySubtreeChanged(n)
    /\ hasValidTagWidths(n.dsr)

\* Lines 904-914
WrapperUnmodified(n) ==
    /\ onlySubtreeChanged(n)
    /\ hasValidTagWidths(n.dsr)
    /\ \/ ~n.autoInsertedStart /\ ~n.autoInsertedEnd
       \/ n.nodeName \in {"TD", "TH", "TR"}

suppressSLC(n) ==
    \/ isFirstEncapsulationWrapperNode(n)
    \/ n.nodeName \in {"DL", "UL", "OL"}
    \/ n.nodeName = "TABLE" /\ n.firstInDD

\* A chunk handed to state.emitChunk
Chunk(kind, s, e, slc) == [kind |-> kind, s |-> s, e |-> e, slc |-> slc]

\* ConstrainedText.fromSelSer(state.getOrigSrc(dsr[0], dsr[1]), ...)
fromSelSer(n) == <<Chunk("origSrc", n.dsr.s, n.dsr.e, ~suppressSLC(n))>>

ConstraintInfo(sepType, nodeA, nodeB, onSOL) ==
    [sepType |-> sepType, nodeA |-> nodeA, nodeB |-> nodeB, onSOL |-> onSOL]

\* What updateSeparatorConstraints(prev, ..., node, ...) of line 990 left
ConstraintInfoCases ==
    {ConstraintInfo("sibling", "prev", "node", "constraint"),
     ConstraintInfo("parent-child", "parent", "node", "constraint")}

\* Lines 856-863
ZeroWidthConstraintInfo(n, info) ==
    IF /\ isZeroWidthWikitextElt(n)
       /\ n.hasChildren
       /\ info.sepType = "sibling"
    THEN ConstraintInfo("parent-child", "node", "firstChild", "state.onSOL")
    ELSE info

\* A faulty variant: the reuse branch does not return
FallsThroughToHandler_NoReturn(reused) == TRUE

\* Lines 897-901 return; line 919 is reached by the other nodes only
FallsThroughToHandler(reused) == ~reused

NoLocal == [inModifiedContent |-> FALSE, wrapperUnmodified |-> FALSE]

SelserInit ==
    /\ sNode \in SelserNodes
    /\ sSelserMode \in BOOLEAN
    /\ sInModifiedContent \in BOOLEAN
    /\ sCurrNodeUnmodified = FALSE
    /\ sConstraintInfo \in ConstraintInfoCases
    /\ sEntry = [node |-> sNode, inModifiedContent |-> sInModifiedContent]
    /\ sLocal = NoLocal
    /\ sOut = <<>>
    /\ sHandleCalls = <<>>
    /\ sPc = "start"
    /\ sNext = Null

\* _serializeDOMNode up to its return: the reuse of lines 828-902, or the
\* call of domHandler.handle of lines 919-926
SerializeDOMNode ==
    /\ sPc = "start"
    /\ LET n == DefaultDsr(sNode)
           reusable == SourceReusable(n, sSelserMode, sInModifiedContent)
           reused == reusable /\ ~hasDiffMarkers(n)
           wrapperUnmodified == reusable /\ ~reused /\ WrapperUnmodified(n)
           inModifiedContent == sSelserMode /\ hasInsertedDiffMark(n)
       IN /\ sNode' = n
          /\ sConstraintInfo' =
                IF reused THEN ZeroWidthConstraintInfo(n, sConstraintInfo)
                ELSE sConstraintInfo
          /\ sOut' = IF reused THEN sOut \o fromSelSer(n) ELSE sOut
          /\ IF FallsThroughToHandler(reused)
             THEN /\ sCurrNodeUnmodified' = FALSE
                  /\ sInModifiedContent' =
                        IF inModifiedContent THEN TRUE ELSE sInModifiedContent
                  /\ sLocal' = [inModifiedContent |-> inModifiedContent,
                                wrapperUnmodified |-> wrapperUnmodified]
                  /\ sHandleCalls' =
                        Append(sHandleCalls,
                               [wrapperUnmodified |-> wrapperUnmodified])
                  /\ sPc' = "handling"
                  /\ sNext' = sNext
             ELSE /\ sCurrNodeUnmodified' = TRUE
                  /\ sNext' = IF isFirstEncapsulationWrapperNode(n)
                              THEN "skipOverEncapsulatedContent"
                              ELSE "nextSibling"
                  /\ sPc' = "done"
                  /\ UNCHANGED <<sInModifiedContent, sLocal, sHandleCalls>>
    /\ UNCHANGED <<sSelserMode, sEntry, notS>>

\* domHandler.handle resolves: the .then callback of lines 927-930 runs
HandleResolves ==
    /\ sPc = "handling"
    /\ sOut' = Append(sOut, Chunk("handler", 0, 0, TRUE))
    /\ sInModifiedContent' =
          IF sLocal.inModifiedContent THEN FALSE ELSE sInModifiedContent
    /\ sNext' = "next"
    /\ sPc' = "done"
    /\ UNCHANGED <<sNode, sSelserMode, sCurrNodeUnmodified, sConstraintInfo,
                   sEntry, sLocal, sHandleCalls, notS>>

\* domHandler.handle rejects: .then has no rejection callback
HandleRejects ==
    /\ sPc = "handling"
    /\ sPc' = "failed"
    /\ UNCHANGED <<sNode, sSelserMode, sInModifiedContent,
                   sCurrNodeUnmodified, sConstraintInfo, sEntry, sLocal,
                   sOut, sHandleCalls, sNext, notS>>

(***************************************************************************)
(* The DOM walker: WSP._serializeNode under state.serializeChildren        *)
(***************************************************************************)

\* The number of nodes below the body
MaxNodes == 3

\* The body; as a child pointer, no node (null)
Body == 0

WalkNodes == 1..MaxNodes

\* What _serializeNode tells apart (lines 949-987) and what the method does:
\*   elt      an element whose handler emits an open and a close chunk
\*   p        an element whose handler emits its children only
\*   reused   an element emitted from original source (selser)
\*   encap    the first wrapper of encapsulated content, which takes its
\*            next sibling along
\*   text, sepText, comment, diffMarker
WalkKinds == {"elt", "p", "reused", "encap", "text", "sepText", "comment",
              "diffMarker"}

ParentKinds == {"elt", "p", "reused", "encap"}

SepKinds == {"sepText", "comment", "diffMarker"}

RECURSIVE AncestorsOrSelf(_, _)
AncestorsOrSelf(parent, n) ==
    IF n = Body THEN {Body} ELSE {n} \cup AncestorsOrSelf(parent, parent[n])

\* Nodes are numbered in document order
IsDocumentOrder(parent) ==
    /\ parent[1] = Body
    /\ \A i \in WalkNodes \ {1} : parent[i] \in AncestorsOrSelf(parent, i - 1)

WalkTrees == {parent \in [WalkNodes -> 0..(MaxNodes - 1)] : IsDocumentOrder(parent)}

childNodes(p) == {i \in WalkNodes : wParent[i] = p}

SetMin(S) == CHOOSE x \in S : \A y \in S : x <= y

SetMax(S) == CHOOSE x \in S : \A y \in S : x >= y

firstChild(p) == IF childNodes(p) = {} THEN Body ELSE SetMin(childNodes(p))

nextSibling(n) ==
    LET S == {i \in childNodes(wParent[n]) : i > n}
    IN IF S = {} THEN Body ELSE SetMin(S)

previousSibling(n) ==
    LET S == {i \in childNodes(wParent[n]) : i < n}
    IN IF S = {} THEN Body ELSE SetMax(S)

\* A faulty variant: the next sibling, a separator or not
NextOrParent_AnySibling(n) ==
    IF nextSibling(n) = Body THEN wParent[n] ELSE nextSibling(n)

\* DU.nextNonSepSibling(node) || node.parentNode
NextOrParent(n) ==
    LET S == {i \in childNodes(wParent[n]) : i > n /\ wKind[i] \notin SepKinds}
    IN IF S = {} THEN wParent[n] ELSE SetMin(S)

\* DU.previousNonSepSibling(node) || node.parentNode
PrevOrParent(n) ==
    LET S == {i \in childNodes(wParent[n]) : i < n /\ wKind[i] \notin SepKinds}
    IN IF S = {} THEN wParent[n] ELSE SetMax(S)

\* DU.skipOverEncapsulatedContent: past the sibling the wrapper takes along
skipOverEncapsulatedContent(n) ==
    IF nextSibling(n) = Body THEN Body ELSE nextSibling(nextSibling(n))

\* What the method's promise resolves to, undefined made node.nextSibling
\* (lines 1005-1007)
NextNode(n) ==
    IF wKind[n] = "encap" THEN skipOverEncapsulatedContent(n)
    ELSE nextSibling(n)

Frame(f, n, c, pc, susp) ==
    [f |-> f, n |-> n, c |-> c, pc |-> pc, susp |-> susp]

\* state.serializeChildren(n), about to serialize c
ChildrenFrame(n, c) == Frame("children", n, c, "loop", FALSE)

\* _serializeTextNode or _serializeDOMNode of n
MethodFrame(n) == Frame("method", n, Body, "start", FALSE)

\* The .then callback of line 994
ThenFrame(n) == Frame("then", n, Body, "wait", FALSE)

Top(stack) == stack[Len(stack)]

Pop(stack) == SubSeq(stack, 1, Len(stack) - 1)

SetTop(stack, frame) == [stack EXCEPT ![Len(stack)] = frame]

NoSep == [pairs |-> {}, src |-> {}, lastSourceNode |-> Body]

OutSep(sep) ==
    [t |-> "sep", n |-> Body, label |-> "sep", pairs |-> sep.pairs,
     src |-> sep.src]

OutChunk(n, label) ==
    [t |-> "chunk", n |-> n, label |-> label, pairs |-> {}, src |-> {}]

\* state.emitChunk: the pending separator is resolved first, once
emitChunk(out, sep, n, label) ==
    [out |-> out \o (IF sep.pairs # {} \/ sep.src # {}
                     THEN <<OutSep(sep)>> ELSE <<>>)
                 \o <<OutChunk(n, label)>>,
     sep |-> [pairs |-> {}, src |-> {}, lastSourceNode |-> n]]

\* this.updateSeparatorConstraints(nodeA, handlerA, nodeB, handlerB)
updateSeparatorConstraints(sep, a, b) ==
    [sep EXCEPT !.pairs = @ \cup {<<a, b>>}]

\* state.setSep and handleSeparatorText: n goes into the separator source
setSep(sep, n) == [sep EXCEPT !.src = @ \cup {n}]

\* A faulty variant: the method is started and its promise is not waited
\* for; the caller's loop goes on to node.nextSibling at once
MethodThen_NotAwaited(stack, n) ==
    << SetTop(stack, ChildrenFrame(Top(stack).n, nextSibling(n))),
       <<ThenFrame(n), MethodFrame(n)>> >>

\* Line 994: the walk goes on from the .then callback of the method's
\* promise, so the caller's loop waits under it
MethodThen(stack, n) == << stack \o <<ThenFrame(n), MethodFrame(n)>> >>

\* The tasks with task t replaced by stacks, of which the finished are gone
Replace(tasks, t, stacks) ==
    SubSeq(tasks, 1, t - 1)
        \o SelectSeq(stacks, LAMBDA s : s # <<>>)
        \o SubSeq(tasks, t + 1, Len(tasks))

\* A step of _serializeNode for a node: the update of the separator
\* constraints between a and b, the call of the method, a chunk emitted,
\* state.updateModificationFlags, the return of b without a method
Ev(ev, a, b) == [ev |-> ev, a |-> a, b |-> b]

Logged(log, n, evs) == [log EXCEPT ![n] = @ \o evs]

WalkInit ==
    /\ wParent \in WalkTrees
    /\ wSelserMode \in BOOLEAN
    /\ wKind \in [WalkNodes -> WalkKinds]
    /\ \A n \in WalkNodes :
          /\ childNodes(n) # {} => wKind[n] \in ParentKinds
          /\ wKind[n] = "reused" => wSelserMode
    /\ wTasks = << <<ChildrenFrame(Body, firstChild(Body))>> >>
    /\ wOut = <<>>
    /\ wSep = NoSep
    /\ wPrevNodeUnmodified = FALSE
    /\ wCurrNodeUnmodified = FALSE
    /\ wSuspended = {}
    /\ wPc = "walking"
    /\ wLog = [n \in WalkNodes |-> <<>>]

\* Lines 969-976, outside modified content
TextNodeUnmodified(n) ==
    LET prev == previousSibling(n)
    IN \/ prev = Body /\ wParent[n] = Body
       \/ prev # Body /\ wKind[prev] # "diffMarker"

\* _serializeNode up to the call of the method (lines 936-994)
WalkSerializeNode ==
    /\ wPc = "walking"
    /\ \E t \in DOMAIN wTasks :
        LET stack == wTasks[t]
            top == Top(stack)
            n == top.c
            advanced == SetTop(stack, ChildrenFrame(top.n, nextSibling(n)))
        IN /\ top.f = "children"
           /\ n # Body
           /\ CASE wKind[n] = "diffMarker" ->
                    /\ wSep' = [wSep EXCEPT !.lastSourceNode = n]
                    /\ wPrevNodeUnmodified' = wCurrNodeUnmodified
                    /\ wCurrNodeUnmodified' = FALSE
                    /\ wTasks' = [wTasks EXCEPT ![t] = advanced]
                    /\ wLog' = Logged(wLog, n,
                                     <<Ev("flags", n, n),
                                       Ev("return", n, nextSibling(n))>>)
                [] wKind[n] \in {"sepText", "comment"} ->
                    /\ wSep' = setSep(wSep, n)
                    /\ wTasks' = [wTasks EXCEPT ![t] = advanced]
                    /\ wLog' = Logged(wLog, n,
                                     <<Ev("return", n, nextSibling(n))>>)
                    /\ UNCHANGED <<wPrevNodeUnmodified, wCurrNodeUnmodified>>
                [] wKind[n] = "text" ->
                    /\ wCurrNodeUnmodified' =
                          IF wSelserMode THEN TextNodeUnmodified(n)
                          ELSE wCurrNodeUnmodified
                    /\ wSep' = updateSeparatorConstraints(wSep, PrevOrParent(n), n)
                    /\ wTasks' = Replace(wTasks, t, MethodThen(stack, n))
                    /\ wLog' = Logged(wLog, n,
                                     <<Ev("sepBefore", PrevOrParent(n), n)>>)
                    /\ UNCHANGED wPrevNodeUnmodified
                [] OTHER ->
                    /\ wSep' = updateSeparatorConstraints(wSep, PrevOrParent(n), n)
                    /\ wTasks' = Replace(wTasks, t, MethodThen(stack, n))
                    /\ wLog' = Logged(wLog, n,
                                     <<Ev("sepBefore", PrevOrParent(n), n)>>)
                    /\ UNCHANGED <<wPrevNodeUnmodified, wCurrNodeUnmodified>>
    /\ UNCHANGED <<wParent, wKind, wSelserMode, wOut, wSuspended, wPc, notW>>

\* The method runs: _serializeTextNode, the reuse of _serializeDOMNode, or
\* the handler up to its call of state.serializeChildren
WalkMethod ==
    /\ wPc = "walking"
    /\ \E t \in DOMAIN wTasks :
        LET stack == wTasks[t]
            top == Top(stack)
            n == top.n
            descend == SetTop(stack, [top EXCEPT !.pc = "close"])
                          \o <<ChildrenFrame(n, firstChild(n))>>
        IN /\ top.f = "method" /\ top.pc = "start" /\ ~top.susp
           /\ wLog' = Logged(wLog, n,
                            IF wKind[n] = "p" THEN <<Ev("method", n, n)>>
                            ELSE <<Ev("method", n, n), Ev("emit", n, n)>>)
           /\ CASE wKind[n] = "text" ->
                    LET e == emitChunk(wOut, wSep, n, "text") IN
                    /\ wOut' = e.out
                    /\ \E newSepMatch \in BOOLEAN :
                          wSep' = IF newSepMatch /\ e.sep.src = {}
                                  THEN setSep(e.sep, n) ELSE e.sep
                    /\ wTasks' = [wTasks EXCEPT ![t] = Pop(stack)]
                    /\ UNCHANGED wCurrNodeUnmodified
                [] wKind[n] = "reused" ->
                    LET e == emitChunk(wOut, wSep, n, "origSrc") IN
                    /\ wOut' = e.out
                    /\ wSep' = e.sep
                    /\ wCurrNodeUnmodified' = TRUE
                    /\ wTasks' = [wTasks EXCEPT ![t] = Pop(stack)]
                [] wKind[n] = "encap" ->
                    LET e == emitChunk(wOut, wSep, n, "encap") IN
                    /\ wOut' = e.out
                    /\ wSep' = e.sep
                    /\ \E reuse \in (IF wSelserMode THEN BOOLEAN ELSE {FALSE}) :
                          wCurrNodeUnmodified' = reuse
                    /\ wTasks' = [wTasks EXCEPT ![t] = Pop(stack)]
                [] wKind[n] = "elt" ->
                    LET e == emitChunk(wOut, wSep, n, "open") IN
                    /\ wOut' = e.out
                    /\ wSep' = e.sep
                    /\ wCurrNodeUnmodified' = FALSE
                    /\ wTasks' = [wTasks EXCEPT ![t] = descend]
                [] OTHER ->
                    /\ wCurrNodeUnmodified' = FALSE
                    /\ wTasks' = [wTasks EXCEPT ![t] = descend]
                    /\ UNCHANGED <<wOut, wSep>>
    /\ UNCHANGED <<wParent, wKind, wSelserMode, wPrevNodeUnmodified,
                   wSuspended, wPc, notW>>

\* state.serializeChildren has resolved: the handler emits what closes the
\* element and resolves
WalkHandlerClose ==
    /\ wPc = "walking"
    /\ \E t \in DOMAIN wTasks :
        LET stack == wTasks[t]
            top == Top(stack)
            e == emitChunk(wOut, wSep, top.n, "close")
        IN /\ top.f = "method" /\ top.pc = "close"
           /\ IF wKind[top.n] = "elt"
              THEN /\ wOut' = e.out /\ wSep' = e.sep
                   /\ wLog' = Logged(wLog, top.n, <<Ev("emit", top.n, top.n)>>)
              ELSE UNCHANGED <<wOut, wSep, wLog>>
           /\ wTasks' = [wTasks EXCEPT ![t] = Pop(stack)]
    /\ UNCHANGED <<wParent, wKind, wSelserMode, wPrevNodeUnmodified,
                   wCurrNodeUnmodified, wSuspended, wPc, notW>>

\* state.serializeChildren finds no next child and resolves
WalkChildrenDone ==
    /\ wPc = "walking"
    /\ \E t \in DOMAIN wTasks :
        LET stack == wTasks[t]
            top == Top(stack)
        IN /\ top.f = "children" /\ top.c = Body
           /\ wTasks' = Replace(wTasks, t, <<Pop(stack)>>)
           /\ wPc' = IF wTasks' = <<>> THEN "done" ELSE "walking"
    /\ UNCHANGED <<wParent, wKind, wSelserMode, wOut, wSep,
                   wPrevNodeUnmodified, wCurrNodeUnmodified, wSuspended,
                   wLog, notW>>

\* The .then callback of lines 994-1009
WalkThen ==
    /\ wPc = "walking"
    /\ \E t \in DOMAIN wTasks :
        LET stack == wTasks[t]
            top == Top(stack)
            n == top.n
            rest == Pop(stack)
        IN /\ top.f = "then"
           /\ wSep' = updateSeparatorConstraints(wSep, n, NextOrParent(n))
           /\ wLog' = Logged(wLog, n,
                            <<Ev("sepAfter", n, NextOrParent(n)),
                              Ev("flags", n, n)>>)
           /\ wPrevNodeUnmodified' = wCurrNodeUnmodified
           /\ wCurrNodeUnmodified' = FALSE
           /\ wTasks' =
                 IF rest # <<>> /\ Top(rest).f = "children" /\ Top(rest).c = n
                 THEN [wTasks EXCEPT
                          ![t] = SetTop(rest, ChildrenFrame(Top(rest).n, NextNode(n)))]
                 ELSE Replace(wTasks, t, <<rest>>)
           /\ wPc' = IF wTasks' = <<>> THEN "done" ELSE "walking"
    /\ UNCHANGED <<wParent, wKind, wSelserMode, wOut, wSuspended, notW>>

\* A handler waits for a nested serialization (the attributes of
\* _serializeHTMLTag, the body of encapsulated content)
WalkSuspend ==
    /\ wPc = "walking"
    /\ \E t \in DOMAIN wTasks :
        LET stack == wTasks[t]
            top == Top(stack)
        IN /\ top.f = "method" /\ top.pc = "start" /\ ~top.susp
           /\ wKind[top.n] \in {"elt", "encap"}
           /\ wTasks' = [wTasks EXCEPT ![t] = SetTop(stack, [top EXCEPT !.susp = TRUE])]
           /\ wSuspended' = wSuspended \cup {top.n}
    /\ UNCHANGED <<wParent, wKind, wSelserMode, wOut, wSep,
                   wPrevNodeUnmodified, wCurrNodeUnmodified, wPc, wLog,
                   notW>>

\* The nested serialization resolves
WalkResume ==
    /\ wPc = "walking"
    /\ \E t \in DOMAIN wTasks :
        LET stack == wTasks[t]
            top == Top(stack)
        IN /\ top.f = "method" /\ top.susp
           /\ wTasks' = [wTasks EXCEPT ![t] = SetTop(stack, [top EXCEPT !.susp = FALSE])]
    /\ UNCHANGED <<wParent, wKind, wSelserMode, wOut, wSep,
                   wPrevNodeUnmodified, wCurrNodeUnmodified, wSuspended, wPc,
                   wLog, notW>>

(***************************************************************************)
(* Extension emission: WSP.defaultExtensionHandler                         *)
(***************************************************************************)

\* dataMW.name
ExtName == "ref"

\* dataMW of an extension; body.html and body.id are strings or undefined,
\* body.extsrc is a string, null or undefined
DataMW(attrs, hasBody, html, id, extsrc) ==
    [attrs |-> attrs, hasBody |-> hasBody, html |-> html, id |-> id,
     extsrc |-> extsrc]

DataMWCases ==
    {DataMW(attrs, hasBody, html, id, extsrc) :
        attrs \in {<<>>, <<"name">>},
        hasBody \in BOOLEAN,
        html \in {Undefined, "", "<b>x</b>"},
        id \in {Undefined, "mw-reference-text-1"},
        extsrc \in {Null, Undefined, "[[x]]"}}

\* node.getAttribute('about'), node.getAttribute('typeof') and whether
\* node.querySelector('a[href]') is a link to a fragment
ExtNodeCases == [about : BOOLEAN, typeof : BOOLEAN, firstAHash : BOOLEAN]

\* node.ownerDocument and env.page.editedDoc ("none": there is no edited
\* document), and the innerHTML of the element of body.id
ExtDocsCases ==
    [own : BOOLEAN, edited : {"none", "miss", "hit"},
     innerHTML : {"", "<i>y</i>"}]

\* What _serializeAttributes(node, extTok) resolves to
ExtAttrStrings(extTok) ==
    IF "name" \in Range(extTok) THEN {"name=\"a\""} ELSE {""}

\* The nested serializeHTML of an extension body
serializeBodyHTML(html) ==
    CASE html = "<b>x</b>" -> "'''x'''"
      [] html = "<i>y</i>" -> "''y''"
      [] OTHER -> html

IsString(v) == v \notin {Undefined, Null}

\* Lines 577-578
BodyIsHTML(dataMW) == IsString(dataMW.html) \/ IsString(dataMW.id)

\* A faulty variant: the edited document is not searched
BodyEltFound_OwnDocOnly(dataMW, docs) ==
    IsString(dataMW.id) /\ docs.own

\* Lines 590-596: getElementById(dataMW.body.id) in the node's document,
\* then in env.page.editedDoc
BodyEltFound(dataMW, docs) ==
    IsString(dataMW.id) /\ (docs.own \/ docs.edited = "hit")

\* Lines 603-614: env.page.editedDoc.querySelector is read without a guard
DebugInfoThrows(node, docs) == node.firstAHash /\ docs.edited = "none"

ExtInit ==
    /\ eDataMW \in DataMWCases
    /\ eNode \in ExtNodeCases
    /\ eDocs \in ExtDocsCases
    /\ eExtTok = <<>>
    /\ eSrcParts = <<>>
    /\ eHtmlText = ""
    /\ eLog = <<>>
    /\ ePc = "start"
    /\ eResult = Null

\* Lines 541-562: srcParts and extTok are set up, _serializeAttributes is
\* called
ExtStart ==
    /\ ePc = "start"
    /\ eSrcParts' = <<"<", ExtName>>
    /\ eExtTok' = eDataMW.attrs
                    \o (IF eNode.about THEN <<"about">> ELSE <<>>)
                    \o (IF eNode.typeof THEN <<"typeof">> ELSE <<>>)
    /\ ePc' = "attrs"
    /\ UNCHANGED <<eDataMW, eNode, eDocs, eHtmlText, eLog, eResult, notE>>

\* Lines 563-643: the callback of _serializeAttributes, up to the promise p
ExtAttrsResolved ==
    /\ ePc = "attrs"
    /\ \E attrStr \in ExtAttrStrings(eExtTok) :
        LET opened == eSrcParts \o
                        (IF attrStr # "" THEN <<" ", attrStr>> ELSE <<>>)
            withBody == opened \o <<">">>
            htmlText == IF eDataMW.html \notin {Undefined, ""}
                        THEN eDataMW.html ELSE eDocs.innerHTML
        IN IF ~eDataMW.hasBody
           THEN /\ eSrcParts' = opened \o <<" />">>
                /\ ePc' = "join"
                /\ UNCHANGED <<eHtmlText, eLog>>
           ELSE IF BodyIsHTML(eDataMW)
           THEN IF eDataMW.html \in {Undefined, ""}
                   /\ ~BodyEltFound(eDataMW, eDocs)
                THEN IF DebugInfoThrows(eNode, eDocs)
                     THEN /\ ePc' = "failed"
                          /\ eSrcParts' = withBody
                          /\ UNCHANGED <<eHtmlText, eLog>>
                     ELSE /\ eLog' = Append(eLog, "error/" \o ExtName)
                          /\ eSrcParts' = <<>>
                          /\ ePc' = "join"
                          /\ UNCHANGED eHtmlText
                ELSE /\ eSrcParts' = withBody
                     /\ eHtmlText' = htmlText
                     /\ ePc' = IF htmlText # "" THEN "body" ELSE "close"
                     /\ UNCHANGED eLog
           ELSE IF eDataMW.extsrc \notin {Null, Undefined}
           THEN /\ eSrcParts' = withBody \o <<eDataMW.extsrc>>
                /\ ePc' = "close"
                /\ UNCHANGED <<eHtmlText, eLog>>
           ELSE /\ eLog' = Append(eLog, "error")
                /\ eSrcParts' = withBody
                /\ ePc' = "close"
                /\ UNCHANGED eHtmlText
    /\ UNCHANGED <<eDataMW, eNode, eDocs, eExtTok, eResult, notE>>

\* Lines 628-633: serializeHTML of htmlText resolves
ExtBodySerialized ==
    /\ ePc = "body"
    /\ eSrcParts' = Append(eSrcParts, serializeBodyHTML(eHtmlText))
    /\ ePc' = "close"
    /\ UNCHANGED <<eDataMW, eNode, eDocs, eExtTok, eHtmlText, eLog, eResult,
                   notE>>

\* Lines 645-647
ExtClose ==
    /\ ePc = "close"
    /\ eSrcParts' = eSrcParts \o <<"</", ExtName, ">">>
    /\ ePc' = "join"
    /\ UNCHANGED <<eDataMW, eNode, eDocs, eExtTok, eHtmlText, eLog, eResult,
                   notE>>

\* Lines 648-650
ExtJoin ==
    /\ ePc = "join"
    /\ eResult' = Join(eSrcParts, "")
    /\ ePc' = "done"
    /\ UNCHANGED <<eDataMW, eNode, eDocs, eExtTok, eSrcParts, eHtmlText, eLog,
                   notE>>

(***************************************************************************)
(* The post-pass of serializeDOM (lines 1210-1236) and the two strippers   *)
(* it calls (lines 1012-1174).  The buffer is the sequence of its lines    *)
(* (the pieces between "\n"); a line is a sequence of atoms.  An atom is a *)
(* single quote character, or a run of characters that the regexps of the  *)
(* strippers treat as a unit: a tag, a bracket pair, a comment, a blank, a *)
(* word.  Concatenating lines of atoms is concatenating their characters,  *)
(* so quotes that become adjacent when a <nowiki/> between them is removed *)
(* are split anew by the next application.                                 *)
(***************************************************************************)
Quote == "'"

SelfClosingNowiki == "<nowiki/>"

\* The atoms matched by /\s/
WsAtoms == {" "}

\* The atoms the wiki's solTransparentWikitextNoWsRegexp accepts: comments
\* (category links and behaviour switches are left out)
SolTransparentNoWsAtoms == {"<!--c-->"}

\* line 1098-1100: the tag the scan sees for a delimiter that is not a run
\* of quotes: the name after '<' (with the '/' of a closing tag), a '/'
\* appended when the delimiter ends with '/>', the delimiter itself for
\* brackets
TagName(atom) ==
    CASE atom = "[[" -> "[["
      [] atom = "]]" -> "]]"
      [] atom = "{{" -> "{{"
      [] atom = "}}" -> "}}"
      [] atom = "<i>" -> "i"
      [] atom = "</i>" -> "/i"
      [] atom = "<div>" -> "div"
      [] atom = "</div>" -> "/div"
      [] atom = "<span>" -> "span"
      [] atom = "</span>" -> "/span"
      [] atom = "<br>" -> "br"
      [] atom = "<hr/>" -> "hr/"
      [] atom = "<ref>" -> "ref"
      [] atom = "</ref>" -> "/ref"
      [] atom = "<nowiki>" -> "nowiki"
      [] atom = "</nowiki>" -> "/nowiki"
      [] atom = "<nowiki/>" -> "nowiki/"

\* line 1085: the atoms the split regexp matches on their own
TagAtoms ==
    {"[[", "]]", "{{", "}}", "<i>", "</i>", "<div>", "</div>", "<span>",
     "</span>", "<br>", "<hr/>", "<ref>", "</ref>", "<nowiki>", "</nowiki>",
     "<nowiki/>"}

\* Atoms that are text to every regexp
TextAtoms == {"foo", "bar", "baz", "x", "="}

PostAtoms ==
    {Quote} \cup TagAtoms \cup TextAtoms \cup WsAtoms
        \cup SolTransparentNoWsAtoms

\* The characters of a line
RECURSIVE Render(_)
Render(line) ==
    IF line = <<>> THEN "" ELSE Head(line) \o Render(Tail(line))

\* How many quotes there are in a row from position i on
RECURSIVE QuoteRun(_, _)
QuoteRun(line, i) ==
    IF i > Len(line) \/ line[i] # Quote THEN 0 ELSE 1 + QuoteRun(line, i + 1)

\* line 1085: the alternatives '''''|'''|'' tried in this order at i
QuoteDelimLen(line, i) ==
    LET r == QuoteRun(line, i)
    IN  IF r >= 5 THEN 5 ELSE IF r >= 3 THEN 3 ELSE IF r = 2 THEN 2 ELSE 0

\* line 1085: line.split(/(...)/): the text pieces at the odd places and
\* the delimiters at the even places (places count from 1 here)
RECURSIVE SplitFrom(_, _, _, _)
SplitFrom(line, i, cur, acc) ==
    IF i > Len(line) THEN Append(acc, cur)
    ELSE LET k == QuoteDelimLen(line, i)
         IN  IF k > 0
             THEN SplitFrom(line, i + k, <<>>,
                            acc \o <<cur, SubSeq(line, i, i + k - 1)>>)
             ELSE IF line[i] \in TagAtoms
             THEN SplitFrom(line, i + 1, <<>>, acc \o <<cur, <<line[i]>>>>)
             ELSE SplitFrom(line, i + 1, Append(cur, line[i]), acc)

SplitLine(line) == SplitFrom(line, 1, <<>>, <<>>)

\* line 1098: the tag of the delimiter d
Tag(d) == IF d[1] = Quote THEN Render(d) ELSE TagName(d[1])

IsQuoteTag(tag) == tag \in {"''", "'''", "'''''"}

IsClosingTag(tag) == tag \in {"/i", "/div", "/span", "/ref", "/nowiki"}

\* line 1100
IsSelfClose(tag) == tag \in {"nowiki/", "hr/"}

lastItem(stack) == IF stack = <<>> THEN "" ELSE stack[Len(stack)]

stackPop(stack) ==
    IF stack = <<>> THEN <<>> ELSE SubSeq(stack, 1, Len(stack) - 1)

EndsWithQuote(piece) == piece # <<>> /\ piece[Len(piece)] = Quote

\* A faulty variant: nothing is strippable inside an open quote
Strippable_DepthZeroOnly(p, j, stack, quotesOnStack) ==
    /\ EndsWithQuote(p[j - 1])
    /\ ~(p[j - 1] = <<Quote>> /\ j > 2 /\ p[j - 2][1] = Quote)
    /\ quotesOnStack = 0

\* lines 1129-1142: may the <nowiki/> at place j be stripped?
Strippable(p, j, stack, quotesOnStack) ==
    /\ EndsWithQuote(p[j - 1])
    /\ ~(p[j - 1] = <<Quote>> /\ j > 2 /\ p[j - 2][1] = Quote)
    /\ \/ quotesOnStack = 0
       \/ /\ quotesOnStack = 1
          /\ j + 2 <= Len(p)
          /\ p[j + 1] = <<>>
          /\ p[j + 2][1] = Quote
          /\ Render(p[j + 2]) = lastItem(stack)

\* The state of the scan of lines 1088-1095; returned is set by 'return line'
ScanStart ==
    [stack |-> <<>>, quotesOnStack |-> 0, nowiki |-> FALSE, ref |-> FALSE,
     nowikiIndex |-> 0, returned |-> FALSE]

\* lines 1115-1124: a closer pops the stack and must match what it pops
ScanCloser(st, tag, open) ==
    IF lastItem(st.stack) = open /\ st.stack # <<>>
    THEN [st EXCEPT !.stack = stackPop(st.stack)]
    ELSE [st EXCEPT !.returned = TRUE]

\* lines 1125-1145: the last strippable <nowiki/> is the one remembered
ScanNowiki(st, p, j) ==
    IF Strippable(p, j, st.stack, st.quotesOnStack)
    THEN [st EXCEPT !.nowikiIndex = j] ELSE st

\* line 1102
ScanRef(st) == [st EXCEPT !.ref = TRUE]

\* lines 1096-1159: one turn of the loop, for the delimiter at place j
ScanStep(st, p, j) ==
    LET tag == Tag(p[j])
    IN  IF tag = "ref" THEN ScanRef(st)
        ELSE IF st.ref
        THEN (IF tag = "/ref" THEN [st EXCEPT !.ref = FALSE] ELSE st)
        ELSE IF tag = "nowiki" THEN [st EXCEPT !.nowiki = TRUE]
        ELSE IF st.nowiki
        THEN (IF tag = "/nowiki" THEN [st EXCEPT !.nowiki = FALSE] ELSE st)
        ELSE IF tag = "]]" THEN ScanCloser(st, tag, "[[")
        ELSE IF tag = "}}" THEN ScanCloser(st, tag, "{{")
        ELSE IF IsClosingTag(tag)
        THEN ScanCloser(st, tag, IF tag = "/i" THEN "i"
                                 ELSE IF tag = "/div" THEN "div"
                                 ELSE IF tag = "/span" THEN "span"
                                 ELSE IF tag = "/ref" THEN "ref"
                                 ELSE "nowiki")
        ELSE IF tag = "nowiki/" THEN ScanNowiki(st, p, j)
        ELSE IF IsSelfClose(tag) \/ tag = "br" THEN st
        ELSE IF IsQuoteTag(tag) /\ lastItem(st.stack) = tag
        THEN [st EXCEPT !.stack = stackPop(st.stack),
                        !.quotesOnStack = st.quotesOnStack - 1]
        ELSE [st EXCEPT !.stack = Append(st.stack, tag),
                        !.quotesOnStack =
                            IF IsQuoteTag(tag) THEN st.quotesOnStack + 1
                            ELSE st.quotesOnStack]

\* lines 1096-1159: the loop over the delimiters, left at the first return
RECURSIVE Scan(_, _, _)
Scan(st, p, j) ==
    IF j > Len(p) \/ st.returned THEN st ELSE Scan(ScanStep(st, p, j), p, j + 2)

ScanLine(line) == Scan(ScanStart, SplitLine(line), 2)

RECURSIVE joinPieces(_)
joinPieces(p) == IF p = <<>> THEN <<>> ELSE Head(p) \o joinPieces(Tail(p))

\* line 1070: the lines the scan is run on
HasQuoteAndNowiki(line) ==
    /\ \E i \in 1..Len(line) : line[i] = SelfClosingNowiki
    /\ \E i \in 1..Len(line) : line[i] = Quote

\* A faulty variant: the <nowiki/> is stripped whatever the stack says
stripQuoteNowiki_IgnoresStack(line) ==
    IF ~HasQuoteAndNowiki(line) THEN line
    ELSE LET p  == SplitLine(line)
             st == Scan(ScanStart, p, 2)
         IN  IF st.nowikiIndex # 0
             THEN joinPieces([p EXCEPT ![st.nowikiIndex] = <<>>])
             ELSE line

\* lines 1067-1173, for one line
stripQuoteNowiki(line) ==
    IF ~HasQuoteAndNowiki(line) THEN line
    ELSE LET p  == SplitLine(line)
             st == Scan(ScanStart, p, 2)
         IN  IF st.returned \/ st.stack # <<>> THEN line
             ELSE IF st.nowikiIndex # 0
             THEN joinPieces([p EXCEPT ![st.nowikiIndex] = <<>>])
             ELSE line

\* lines 1066-1174
stripUnnecessaryQuoteNowikis(out) ==
    [i \in 1..Len(out) |-> stripQuoteNowiki(out[i])]

\* line 1027: the tags of rest, comments left out
HtmlTags(rest) ==
    SelectSeq(rest, LAMBDA a : a \in TagAtoms \ {"[[", "]]", "{{", "}}"})

\* line 1035: the tag name: '<' or '</' and '>' taken off (a '/' before the
\* '>' stays), in upper case
UpperTagName(atom) ==
    CASE atom \in {"<i>", "</i>"} -> "I"
      [] atom \in {"<div>", "</div>"} -> "DIV"
      [] atom \in {"<span>", "</span>"} -> "SPAN"
      [] atom = "<br>" -> "BR"
      [] atom = "<hr/>" -> "HR/"
      [] atom \in {"<ref>", "</ref>"} -> "REF"
      [] atom \in {"<nowiki>", "</nowiki>"} -> "NOWIKI"
      [] atom = "<nowiki/>" -> "NOWIKI/"

\* Consts.HTML.HTML5Tags, as far as the atoms go
HTML5Tags == {"I", "DIV", "SPAN", "BR", "HR"}

\* Consts.HTML.BlockTags, as far as the atoms go
BlockTags == {"DIV", "HR"}

\* line 1030: solTransparentWikitextRegexp.test(rest)
IsSolTransparent(rest) ==
    \A i \in 1..Len(rest) : rest[i] \in WsAtoms \cup SolTransparentNoWsAtoms

\* A faulty variant: one block tag is enough
NowikiReqd_AnyBlockTag(rest) ==
    /\ ~IsSolTransparent(rest)
    /\ ~\E i \in 1..Len(rest) :
            rest[i] \in TagAtoms \ {"[[", "]]", "{{", "}}"}
                /\ UpperTagName(rest[i]) \in BlockTags

\* lines 1030-1049: reqd; the loop stops with reqd = true at the first tag
\* that is not an HTML5 tag, whatever came before it
NowikiReqd(rest) ==
    LET tags == HtmlTags(rest)
    IN  /\ ~IsSolTransparent(rest)
        /\ \/ \E i \in 1..Len(tags) : UpperTagName(tags[i]) \notin HTML5Tags
           \/ ~\E i \in 1..Len(tags) : UpperTagName(tags[i]) \in BlockTags

\* How many atoms of S the line has in a row from place i on
RECURSIVE RunOf(_, _, _)
RunOf(line, i, S) ==
    IF i > Len(line) \/ line[i] \notin S THEN 0 ELSE 1 + RunOf(line, i + 1, S)

\* lines 1016-1019: where the regexp matches the line: pre atoms of prefix,
\* <nowiki>, ws blanks, </nowiki>; ws = 0 when it does not match
IndentPreMatch(line) ==
    LET pre == RunOf(line, 1, SolTransparentNoWsAtoms)
        ws  == RunOf(line, pre + 2, WsAtoms)
    IN  IF /\ pre + 1 <= Len(line) /\ line[pre + 1] = "<nowiki>"
           /\ ws > 0
           /\ pre + ws + 2 <= Len(line) /\ line[pre + ws + 2] = "</nowiki>"
        THEN [pre |-> pre, ws |-> ws] ELSE [pre |-> pre, ws |-> 0]

\* lines 1022-1058, for one line
stripIndentPreNowiki(line, scrubWikitext) ==
    LET m == IndentPreMatch(line)
    IN  IF m.ws = 0 THEN line
        ELSE LET prefix == SubSeq(line, 1, m.pre)
                 blanks == SubSeq(line, m.pre + 2, m.pre + m.ws + 1)
                 nowiki == SubSeq(line, m.pre + 1, m.pre + m.ws + 2)
                 rest   == SubSeq(line, m.pre + m.ws + 3, Len(line))
             IN  IF ~NowikiReqd(rest) THEN prefix \o blanks \o rest
                 ELSE IF scrubWikitext
                 THEN prefix \o SubSeq(rest, RunOf(rest, 1, WsAtoms) + 1,
                                       Len(rest))
                 ELSE prefix \o nowiki \o rest

\* lines 1012-1060
stripUnnecessaryIndentPreNowikis(out, scrubWikitext) ==
    [i \in 1..Len(out) |-> stripIndentPreNowiki(out[i], scrubWikitext)]

\* The shortest prefix of the line after which there are only <nowiki/>s,
\* each followed by blanks, to the end; Len + 1 when there is none
RECURSIVE TrailingFrom(_, _)
TrailingFrom(line, i) ==
    IF i > Len(line) THEN Len(line) + 1
    ELSE IF /\ line[i] = SelfClosingNowiki
            /\ \A k \in i..Len(line) :
                    line[k] \in {SelfClosingNowiki} \cup WsAtoms
    THEN i
    ELSE TrailingFrom(line, i + 1)

\* line 1234: piece.replace(/^([^=]*?)(?:<nowiki\s*\/>\s*)+$/, '$1')
stripTrailingNowikis(piece) ==
    LET i == TrailingFrom(piece, 1)
    IN  IF i <= Len(piece) /\ \A k \in 1..(i - 1) : piece[k] # "="
        THEN SubSeq(piece, 1, i - 1) ELSE piece

\* The longest line drawn from every arrangement of atoms
MaxLineLen == 2

\* The atoms of the lines drawn from every arrangement
ArrangedAtoms ==
    {Quote, SelfClosingNowiki, "foo", " ", "=", "[[", "]]", "<ref>",
     "<nowiki>", "</nowiki>", "<div>"}

ArrangedLines ==
    UNION {[1..n -> ArrangedAtoms] : n \in 0..MaxLineLen}

\* lines 1166-1167: ''<nowiki/>'foo'<nowiki/>''
ItalicQuotedFoo ==
    <<Quote, Quote, SelfClosingNowiki, Quote, "foo", Quote,
      SelfClosingNowiki, Quote, Quote>>

\* line 1080: '<nowiki/>''foo'' bar '<nowiki/>'''baz'''
QuoteBeforeOpeners ==
    <<Quote, SelfClosingNowiki, Quote, Quote, "foo", Quote, Quote, " ",
      "bar", " ", Quote, SelfClosingNowiki, Quote, Quote, Quote, "baz",
      Quote, Quote, Quote>>

\* line 1084: ''foo'<nowiki/>'' bar '''baz'<nowiki/>'''
QuoteBeforeClosers ==
    <<Quote, Quote, "foo", Quote, SelfClosingNowiki, Quote, Quote, " ",
      "bar", " ", Quote, Quote, Quote, "baz", Quote, SelfClosingNowiki,
      Quote, Quote, Quote>>

\* foo'<nowiki/>, the start of the lines below
Strippable1 == <<"foo", Quote, SelfClosingNowiki>>

\* Lines with quotes and <nowiki/>s for the scan of lines 1096-1159
QuoteLines ==
    {ItalicQuotedFoo, QuoteBeforeOpeners, QuoteBeforeClosers,
     Strippable1 \o <<"bar">>,
     Strippable1 \o <<"<ref>", "x">>,
     Strippable1 \o <<"<ref>", "]]", "</ref>">>,
     Strippable1 \o <<"<nowiki>", "x">>,
     Strippable1 \o <<"<nowiki>", "}}", "</nowiki>">>,
     Strippable1 \o <<"]]">>,
     Strippable1 \o <<"}}">>,
     Strippable1 \o <<"</i>">>,
     Strippable1 \o <<"[[">>,
     Strippable1 \o <<"{{">>,
     Strippable1 \o <<"<i>">>,
     Strippable1 \o <<Quote, Quote, "x">>,
     Strippable1 \o <<"<br>", "<hr/>">>,
     <<"[[">> \o Strippable1 \o <<"]]">>,
     <<"{{">> \o Strippable1 \o <<"}}">>,
     <<"<i>">> \o Strippable1 \o <<"</i>">>,
     <<"<i>">> \o Strippable1 \o <<"</span>">>,
     <<"[[">> \o Strippable1 \o <<"}}">>,
     <<Quote, Quote, Quote>> \o Strippable1 \o <<Quote, Quote, Quote>>,
     <<Quote, Quote>> \o Strippable1 \o <<"x", Quote, Quote>>}

\* Lines that start with <nowiki>blanks</nowiki>, for lines 1016-1058
IndentPreLines ==
    {<<"<nowiki>", " ", "</nowiki>">> \o rest :
        rest \in {<<>>, <<"x">>, <<" ", "<!--c-->">>,
                  <<"<div>", "x", "</div>">>,
                  <<"<span>", "x", "</span>">>,
                  <<"<div>", "x", "</div>", "<ref>", "x", "</ref>">>,
                  <<"<ref>", "<div>", "x", "</div>", "</ref>">>,
                  <<"<span>", "<div>", "x", "</div>", "</span>">>,
                  <<"x", "<hr/>">>,
                  <<" ", "x", "<br>">>}}
    \cup {<<"<!--c-->", "<nowiki>", " ", " ", "</nowiki>", "<div>">>,
          <<" ", "<nowiki>", " ", "</nowiki>", "<div>">>,
          <<"x", "<nowiki>", " ", "</nowiki>", "<div>">>}

\* Lines that end with <nowiki/>s, for line 1234
TrailingLines ==
    {<<"foo", SelfClosingNowiki>>,
     <<"foo", SelfClosingNowiki, " ", SelfClosingNowiki, " ">>,
     <<"x", "=", SelfClosingNowiki>>,
     <<"x", "=", " ", SelfClosingNowiki, " ">>,
     <<SelfClosingNowiki, "foo">>,
     <<Quote, SelfClosingNowiki, Quote, SelfClosingNowiki>>}

LineCases ==
    ArrangedLines \cup QuoteLines \cup IndentPreLines \cup TrailingLines

\* The lines that follow another line in a buffer of two lines
SecondLineCases ==
    {Strippable1 \o <<"bar">>, Strippable1 \o <<"]]">>,
     <<"<nowiki>", " ", "</nowiki>", "<div>">>}

\* state.out when serializeChildren has resolved
OutCases ==
    {<<l>> : l \in LineCases}
        \cup {<<l, m>> : l \in QuoteLines \cup IndentPreLines \cup TrailingLines,
                         m \in SecondLineCases}

FlagCases ==
    [hasIndentPreNowikis : BOOLEAN, hasQuoteNowikis : BOOLEAN,
     hasSelfClosingNowikis : BOOLEAN, selserMode : BOOLEAN,
     scrubWikitext : BOOLEAN]

NoFlags ==
    [hasIndentPreNowikis |-> FALSE, hasQuoteNowikis |-> FALSE,
     hasSelfClosingNowikis |-> FALSE, selserMode |-> FALSE,
     scrubWikitext |-> FALSE]

PostInit ==
    /\ pOut \in OutCases
    /\ pFlags \in FlagCases
    /\ pPc = "indentPre"
    /\ pRound = 1

\* lines 1210-1216
PostIndentPre ==
    /\ pPc = "indentPre"
    /\ pOut' = IF pFlags.hasIndentPreNowikis
               THEN stripUnnecessaryIndentPreNowikis(pOut,
                                                     pFlags.scrubWikitext)
               ELSE pOut
    /\ pPc' = "quote"
    /\ UNCHANGED <<pFlags, pRound>>
    /\ UNCHANGED notP

\* lines 1218-1224
PostQuote ==
    /\ pPc = "quote"
    /\ pOut' = IF pFlags.hasQuoteNowikis
               THEN stripUnnecessaryQuoteNowikis(pOut)
               ELSE pOut
    /\ pPc' = "trailing"
    /\ UNCHANGED <<pFlags, pRound>>
    /\ UNCHANGED notP

\* lines 1226-1238
PostTrailing ==
    /\ pPc = "trailing"
    /\ pOut' = IF pFlags.hasSelfClosingNowikis \/ pFlags.selserMode
               THEN [i \in 1..Len(pOut) |-> stripTrailingNowikis(pOut[i])]
               ELSE pOut
    /\ pPc' = "done"
    /\ UNCHANGED <<pFlags, pRound>>
    /\ UNCHANGED notP

\* The three rewrites are applied once more to what they returned
PostAgain ==
    /\ pPc = "done"
    /\ pRound = 1
    /\ pRound' = 2
    /\ pPc' = "indentPre"
    /\ UNCHANGED <<pOut, pFlags>>
    /\ UNCHANGED notP

(***************************************************************************)
(* An HTML-syntax element with text in it: _serializeHTMLTag (lines        *)
(* 163-201), _serializeTextNode (lines 700-748) and _serializeHTMLEndTag   *)
(* (lines 203-228).  The handler that calls the two tag serializers around *)
(* state.serializeChildren, state.emitChunk and Util.escapeEntities are    *)
(* not in this file; they are modelled from their description.  A text is  *)
(* a sequence of atoms: a newline, a blank, a word.                        *)
(***************************************************************************)
NL == "\n"

Blank == " "

\* /\s/ and /[ \t]/ on the atoms of a text
TextWs == {NL, Blank}

\* line 694, doubleNewlineRE_G at place i: the place of the last newline the
\* match takes, 0 when there is no match at i
DoubleNewlineEnd(text, i) ==
    IF text[i] # NL THEN 0
    ELSE LET r == RunOf(text, i + 1, TextWs)
             nls == {k \in (i + 1)..(i + r) : text[k] = NL}
         IN  IF nls = {} THEN 0 ELSE CHOOSE k \in nls : \A m \in nls : m <= k

\* line 704-705: doubleNewlineCount
RECURSIVE DoubleNewlineCountFrom(_, _)
DoubleNewlineCountFrom(text, i) ==
    IF i > Len(text) THEN 0
    ELSE LET e == DoubleNewlineEnd(text, i)
         IN  IF e = 0 THEN DoubleNewlineCountFrom(text, i + 1)
             ELSE 1 + DoubleNewlineCountFrom(text, e + 1)

DoubleNewlineCount(text) == DoubleNewlineCountFrom(text, 1)

\* line 721: res.replace(doubleNewlineRE_G, '\n')
RECURSIVE StripDoubleNewlinesFrom(_, _)
StripDoubleNewlinesFrom(text, i) ==
    IF i > Len(text) THEN <<>>
    ELSE LET e == DoubleNewlineEnd(text, i)
         IN  IF e = 0 THEN <<text[i]>> \o StripDoubleNewlinesFrom(text, i + 1)
             ELSE <<NL>> \o StripDoubleNewlinesFrom(text, e + 1)

StripDoubleNewlines(text) == StripDoubleNewlinesFrom(text, 1)

\* line 708, sepSuffixWithNlsRE: where the trailing separator starts,
\* Len + 1 when there is none
SepSuffixStart(text) ==
    LET starts == {i \in 1..Len(text) :
                      /\ text[i] = NL
                      /\ \A k \in i..Len(text) : text[k] \in TextWs}
    IN  IF starts = {} THEN Len(text) + 1
        ELSE CHOOSE i \in starts : \A m \in starts : i <= m

\* line 709
StripSepSuffix(text) == SubSeq(text, 1, SepSuffixStart(text) - 1)

\* line 708: newSepMatch[0], <<>> when there is no match
NewSepMatch(text) == SubSeq(text, SepSuffixStart(text), Len(text))

\* line 726: res.replace(sepPrefixWithNlsRE, '')
StripSepPrefix(text) ==
    LET b == RunOf(text, 1, {Blank})
    IN  IF b + 1 <= Len(text) /\ text[b + 1] = NL
        THEN SubSeq(text, b + RunOf(text, b + 1, TextWs) + 1, Len(text))
        ELSE text

\* line 730: Util.escapeEntities over the atoms of the text
escapeTextEntities(text) == [i \in 1..Len(text) |-> escapeEntities(text[i])]

\* A faulty variant: the newlines are kept only in a <pre> whose text has one
\* blank line
StripsNewlines_UnlessPreWithOneBlankLine(inHTMLPre, allText, count) ==
    ~(inHTMLPre /\ allText /\ count = 1)

\* lines 718-719: are the double newlines stripped?
StripsNewlines(inHTMLPre, allText, count) ==
    ~inHTMLPre /\ (~allText \/ count # 1)

\* DU.allChildrenAreText(node.parentNode)
allChildrenAreText(kids) == \A i \in 1..Len(kids) : kids[i].isText

\* lines 701-730: res, as given to state.emitChunk
TextRes(nodeValue, inIndentPre, inHTMLPre, allText) ==
    LET count == DoubleNewlineCount(nodeValue)
        res1  == StripSepSuffix(nodeValue)
        res2  == IF inIndentPre THEN res1
                 ELSE StripSepPrefix(
                        IF StripsNewlines(inHTMLPre, allText, count)
                        THEN StripDoubleNewlines(res1) ELSE res1)
    IN  escapeTextEntities(res2)

\* line 734-735
EscapeTextFor(onSOL, currNodeUnmodified, inNoWiki, inHTMLPre) ==
    (onSOL \/ ~currNodeUnmodified) /\ ~inNoWiki /\ ~inHTMLPre

\* A faulty variant: the flag is left as it was set for the text
EscapeTextAfterEmit_NotReset(escapeText) == escapeText

\* line 737
EscapeTextAfterEmit(escapeText) == FALSE

NoneSep == [has |-> FALSE, src |-> <<>>]

\* What state.emitChunk was given and the flags it saw
EmittedChunk(byText, text, escapeText, currNodeUnmodified) ==
    [byText |-> byText, text |-> text, escapeText |-> escapeText,
     onSOL |-> xOnSOL, currNodeUnmodified |-> currNodeUnmodified,
     inNoWiki |-> xInNoWiki, inHTMLPre |-> xInHTMLPre, sep |-> xSep.src]

\* state.onSOL when a chunk with this text is out
OnSOLAfter(text, sep, onSOL) ==
    LET all == sep \o text
    IN  IF all = <<>> THEN onSOL ELSE all[Len(all)] = NL

\* lines 166-170: state.inHTMLPre when _serializeHTMLTag has run
PreTagOpened(name, wrapperUnmodified, inHTMLPre) ==
    IF name = "pre" THEN TRUE ELSE inHTMLPre

\* lines 204-212: state.inHTMLPre when _serializeHTMLEndTag has run: with
\* wrapperUnmodified it has returned before the flag is touched
PreTagClosed(name, wrapperUnmodified, inHTMLPre) ==
    IF ~wrapperUnmodified /\ name = "pre" THEN FALSE ELSE inHTMLPre

\* The longest text drawn from every arrangement of atoms
MaxTextLen == 3

ArrangedTexts ==
    {t \in UNION {[1..n -> {"a", NL, Blank}] : n \in 1..MaxTextLen} :
        \E i \in 1..Len(t) : t[i] = "a"}

\* line 713-715: foo, a blank line, bar
OneBlankLine == <<"a", NL, NL, "a">>

TextCases ==
    ArrangedTexts
        \cup {OneBlankLine,
              <<"a", NL, Blank, NL, NL, "a">>,
              <<"a", NL, NL, "a", NL, NL, "a">>,
              <<"a", NL, NL, "a", NL, Blank, NL>>,
              <<NL, NL, "a", NL, NL, "a">>,
              <<"a", NL, "a&\"b", NL, NL, "a">>}

TextKid(nodeValue) == [isText |-> TRUE, nodeValue |-> nodeValue]

EltKid == [isText |-> FALSE, nodeValue |-> <<>>]

\* node.childNodes
KidsCases ==
    UNION {{<<TextKid(v)>>, <<TextKid(v), EltKid>>, <<EltKid, TextKid(v)>>} :
              v \in TextCases}
        \cup {<<>>, <<TextKid(OneBlankLine), TextKid(OneBlankLine)>>}

HtmlInit ==
    /\ xNode \in [name : {"pre", "div"}, wrapperUnmodified : BOOLEAN]
    /\ xSelserMode \in BOOLEAN
    /\ xNode.wrapperUnmodified => xSelserMode
    /\ xKids \in KidsCases
    /\ xNext = 1
    /\ xInHTMLPre = FALSE
    /\ xInNoWiki \in BOOLEAN
    /\ xInIndentPre \in BOOLEAN
    /\ xEscapeText = FALSE
    /\ xOnSOL \in BOOLEAN
    /\ xCurrNodeUnmodified = FALSE
    /\ xSep = NoneSep
    /\ xChunks = <<>>
    /\ xPc = "open"

\* lines 163-187: _serializeHTMLTag up to what it returns or waits for
HtmlOpenTag ==
    /\ xPc = "open"
    /\ xInHTMLPre' = PreTagOpened(xNode.name, xNode.wrapperUnmodified,
                                  xInHTMLPre)
    /\ xPc' = "opened"
    /\ UNCHANGED <<xNode, xKids, xNext, xSelserMode, xInNoWiki, xInIndentPre,
                   xEscapeText, xOnSOL, xCurrNodeUnmodified, xSep, xChunks>>
    /\ UNCHANGED notX

\* The handler has the open tag and emits it
HtmlOpenTagEmitted ==
    /\ xPc = "opened"
    /\ LET tag == <<"<" \o xNode.name \o ">">>
       IN  /\ xChunks' = Append(xChunks,
                EmittedChunk(FALSE, tag, xEscapeText, xCurrNodeUnmodified))
           /\ xOnSOL' = OnSOLAfter(tag, xSep.src, xOnSOL)
    /\ xSep' = NoneSep
    /\ xPc' = "children"
    /\ UNCHANGED <<xNode, xKids, xNext, xSelserMode, xInHTMLPre, xInNoWiki,
                   xInIndentPre, xEscapeText, xCurrNodeUnmodified>>
    /\ UNCHANGED notX

\* line 187: _serializeAttributes rejects
HtmlAttributesReject ==
    /\ xPc = "opened"
    /\ ~xNode.wrapperUnmodified
    /\ xPc' = "failed"
    /\ UNCHANGED <<xNode, xKids, xNext, xSelserMode, xInHTMLPre, xInNoWiki,
                   xInIndentPre, xEscapeText, xOnSOL, xCurrNodeUnmodified,
                   xSep, xChunks>>
    /\ UNCHANGED notX

\* lines 968-979 and 700-748: a text child: state.currNodeUnmodified is set
\* in selser mode (from the previous sibling and state.inModifiedContent),
\* then _serializeTextNode runs
HtmlTextNode ==
    /\ xPc = "children" /\ xNext <= Len(xKids) /\ xKids[xNext].isText
    /\ \E unmodified \in BOOLEAN :
        LET curr == IF xSelserMode THEN unmodified ELSE xCurrNodeUnmodified
            nodeValue == xKids[xNext].nodeValue
            res == TextRes(nodeValue, xInIndentPre, xInHTMLPre,
                           allChildrenAreText(xKids))
            escapeText == EscapeTextFor(xOnSOL, curr, xInNoWiki, xInHTMLPre)
            newSep == NewSepMatch(nodeValue)
        IN  /\ xCurrNodeUnmodified' = curr
            /\ xChunks' = Append(xChunks,
                 EmittedChunk(TRUE, res, escapeText, curr))
            /\ xOnSOL' = OnSOLAfter(res, xSep.src, xOnSOL)
            /\ xEscapeText' = EscapeTextAfterEmit(escapeText)
            /\ xSep' = IF newSep # <<>> THEN [has |-> TRUE, src |-> newSep]
                       ELSE NoneSep
    /\ xNext' = xNext + 1
    /\ UNCHANGED <<xNode, xKids, xSelserMode, xInHTMLPre, xInNoWiki,
                   xInIndentPre, xPc>>
    /\ UNCHANGED notX

\* An element child: its handler emits its chunk
HtmlChildElement ==
    /\ xPc = "children" /\ xNext <= Len(xKids) /\ ~xKids[xNext].isText
    /\ LET tag == <<"<br>">>
       IN  /\ xChunks' = Append(xChunks,
                EmittedChunk(FALSE, tag, xEscapeText, xCurrNodeUnmodified))
           /\ xOnSOL' = OnSOLAfter(tag, xSep.src, xOnSOL)
    /\ xSep' = NoneSep
    /\ xNext' = xNext + 1
    /\ UNCHANGED <<xNode, xKids, xSelserMode, xInHTMLPre, xInNoWiki,
                   xInIndentPre, xEscapeText, xCurrNodeUnmodified, xPc>>
    /\ UNCHANGED notX

\* The handler of an element child throws or rejects
HtmlChildFails ==
    /\ xPc = "children" /\ xNext <= Len(xKids) /\ ~xKids[xNext].isText
    /\ xPc' = "failed"
    /\ UNCHANGED <<xNode, xKids, xNext, xSelserMode, xInHTMLPre, xInNoWiki,
                   xInIndentPre, xEscapeText, xOnSOL, xCurrNodeUnmodified,
                   xSep, xChunks>>
    /\ UNCHANGED notX

\* lines 203-228: the children are done; _serializeHTMLEndTag, and the
\* handler emits what it returned
HtmlEndTag ==
    /\ xPc = "children" /\ xNext > Len(xKids)
    /\ xInHTMLPre' = PreTagClosed(xNode.name, xNode.wrapperUnmodified,
                                  xInHTMLPre)
    /\ LET tag == <<"</" \o xNode.name \o ">">>
       IN  /\ xChunks' = Append(xChunks,
                [EmittedChunk(FALSE, tag, xEscapeText, xCurrNodeUnmodified)
                    EXCEPT !.inHTMLPre = xInHTMLPre'])
           /\ xOnSOL' = OnSOLAfter(tag, xSep.src, xOnSOL)
    /\ xSep' = NoneSep
    /\ xPc' = "done"
    /\ UNCHANGED <<xNode, xKids, xNext, xSelserMode, xInNoWiki, xInIndentPre,
                   xEscapeText, xCurrNodeUnmodified>>
    /\ UNCHANGED notX

(***************************************************************************)
(* _serializeDOMNode over a subtree: the handlers of the elements call     *)
(* state.serializeChildren, which comes back to _serializeDOMNode          *)
(***************************************************************************)

\* An element whose other reuse conditions hold when its DSR is there
NestedNode(diff, hasDsr) ==
    [nodeName |-> "P",
     dsr |-> IF hasDsr THEN Dsr("array", 4, 0, 1) ELSE UndefinedDsr,
     fostered |-> FALSE, misnested |-> FALSE,
     autoInsertedStart |-> FALSE, autoInsertedEnd |-> FALSE,
     diff |-> diff, origSrcValid |-> TRUE, encapWrapper |-> FALSE,
     hasChildren |-> FALSE, firstInDD |-> FALSE]

NestedNodes == {NestedNode(diff, hasDsr) : diff \in DiffCases, hasDsr \in BOOLEAN}

mChildNodes(p) == {i \in WalkNodes : mParent[i] = p}

mFirstChild(p) == IF mChildNodes(p) = {} THEN Body ELSE SetMin(mChildNodes(p))

mNextSibling(n) ==
    LET S == {i \in mChildNodes(mParent[n]) : i > n}
    IN IF S = {} THEN Body ELSE SetMin(S)

\* The closure of a call of _serializeDOMNode that reached line 925
HandleFrame(n, inModifiedContent) ==
    [n |-> n, inModifiedContent |-> inModifiedContent]

NestedInit ==
    /\ mParent \in WalkTrees
    /\ mNode \in [WalkNodes -> NestedNodes]
    /\ mSelserMode \in BOOLEAN
    /\ mInModifiedContent = FALSE
    /\ mStack = <<>>
    /\ mCur = 1
    /\ mReused = {}
    /\ mPc = "walking"

\* _serializeDOMNode of the next child, up to its return (lines 822-926):
\* the source is reused and the children are skipped, or the handler is
\* called and starts on the children
NestedSerializeDOMNode ==
    /\ mPc = "walking" /\ mCur # Body
    /\ LET n == DefaultDsr(mNode[mCur])
           reused == /\ SourceReusable(n, mSelserMode, mInModifiedContent)
                     /\ ~hasDiffMarkers(n)
           inModifiedContent == mSelserMode /\ hasInsertedDiffMark(n)
       IN /\ mNode' = [mNode EXCEPT ![mCur] = n]
          /\ IF reused
             THEN /\ mReused' = mReused \cup {mCur}
                  /\ mCur' = mNextSibling(mCur)
                  /\ UNCHANGED <<mInModifiedContent, mStack>>
             ELSE /\ mInModifiedContent' =
                        IF inModifiedContent THEN TRUE ELSE mInModifiedContent
                  /\ mStack' = Append(mStack, HandleFrame(mCur, inModifiedContent))
                  /\ mCur' = mFirstChild(mCur)
                  /\ UNCHANGED mReused
    /\ UNCHANGED <<mParent, mSelserMode, mPc, notM>>

\* The children are done and the handler resolves: the .then callback of
\* lines 927-930 runs and the walk goes on to the next sibling
NestedHandleResolves ==
    /\ mPc = "walking" /\ mCur = Body /\ mStack # <<>>
    /\ LET top == mStack[Len(mStack)]
       IN /\ mInModifiedContent' =
                IF top.inModifiedContent THEN FALSE ELSE mInModifiedContent
          /\ mStack' = SubSeq(mStack, 1, Len(mStack) - 1)
          /\ mCur' = mNextSibling(top.n)
    /\ UNCHANGED <<mParent, mNode, mSelserMode, mReused, mPc, notM>>

\* A handler rejects: no .then of line 927 has a rejection callback, so the
\* rejection goes up through every caller
NestedHandleRejects ==
    /\ mPc = "walking" /\ mStack # <<>>
    /\ mPc' = "failed"
    /\ mStack' = <<>>
    /\ UNCHANGED <<mParent, mNode, mSelserMode, mInModifiedContent, mCur,
                   mReused, notM>>

\* serializeChildren of the body finds no next child
NestedBodyDone ==
    /\ mPc = "walking" /\ mCur = Body /\ mStack = <<>>
    /\ mPc' = "done"
    /\ UNCHANGED <<mParent, mNode, mSelserMode, mInModifiedContent, mStack,
                   mCur, mReused, notM>>

(***************************************************************************)
(* bin/parse.js: the exported parse and the two stages it alternates       *)
(* between, startsAtHTML and startsAtWikitext                              *)
(***************************************************************************)

\* The stages the model follows a conversion through
MaxStages == 4

ArgvCases ==
    [wt2html : BOOLEAN, html2wt : BOOLEAN, wt2wt : BOOLEAN,
     html2html : BOOLEAN, selser : BOOLEAN, normalize : BOOLEAN,
     document : BOOLEAN]

NoArgv ==
    [wt2html |-> FALSE, html2wt |-> FALSE, wt2wt |-> FALSE,
     html2html |-> FALSE, selser |-> FALSE, normalize |-> FALSE,
     document |-> FALSE]

\* { trailingNL: true, out: out, env: env }
StageResult(out) == [trailingNL |-> TRUE, out |-> out]

NoResult == [trailingNL |-> FALSE, out |-> "none"]

\* Line 164: the serializer's output is the result in these modes
ReturnsAfterSerialize(argv) == argv.html2wt \/ argv.wt2wt

\* Line 179: the parser's output is the result in these modes
ReturnsAfterParse(argv) == argv.wt2html \/ argv.html2html

\* Lines 180-189: the form the document is returned in
ParsedOut(argv) ==
    IF argv.normalize THEN "normalizedHTML"
    ELSE IF argv.document THEN "document"
    ELSE "html"

ParseInit ==
    /\ rArgv \in ArgvCases
    /\ rInput = "input"
    /\ rStages = <<>>
    /\ rResult = NoResult
    /\ rPc = "parse"

\* Lines 278-290 of parse: the stage the input is handed to
parse ==
    /\ rPc = "parse"
    /\ rPc' = IF rArgv.html2wt \/ rArgv.html2html
              THEN "startsAtHTML" ELSE "startsAtWikitext"
    /\ UNCHANGED <<rArgv, rInput, rStages, rResult, notR>>

\* startsAtHTML with the .then callback of its serializeDOM promise
startsAtHTML ==
    /\ rPc = "startsAtHTML" /\ Len(rStages) < MaxStages
    /\ rStages' = Append(rStages, "serialize")
    /\ IF ReturnsAfterSerialize(rArgv)
       THEN /\ rResult' = StageResult("wikitext")
            /\ rPc' = "done"
            /\ UNCHANGED rInput
       ELSE /\ rInput' = "wikitext"
            /\ rPc' = "startsAtWikitext"
            /\ UNCHANGED rResult
    /\ UNCHANGED <<rArgv, notR>>

\* startsAtWikitext with the .then callback of its parse promise
startsAtWikitext ==
    /\ rPc = "startsAtWikitext" /\ Len(rStages) < MaxStages
    /\ rStages' = Append(rStages, "parse")
    /\ IF ReturnsAfterParse(rArgv)
       THEN /\ rResult' = StageResult(ParsedOut(rArgv))
            /\ rPc' = "done"
            /\ UNCHANGED rInput
       ELSE /\ rInput' = "html"
            /\ rPc' = "startsAtHTML"
            /\ UNCHANGED rResult
    /\ UNCHANGED <<rArgv, notR>>

(***************************************************************************)
(* Specifications                                                          *)
(***************************************************************************)

HandlerIdle ==
    /\ hNode = [kind |-> "null"] /\ hReg = {} /\ hPc = "idle" /\ hResult = Null

AttrsIdle ==
    /\ aAttribs = <<>> /\ aHasDP = FALSE /\ aDA = DataAttribs(FALSE, <<>>, FALSE, {})
    /\ aTplAttrs = <<>> /\ aIdx = 0 /\ aOut = <<>> /\ aPending = NoPending
    /\ aPc = "idle" /\ aWarn = 0 /\ aResult = Null

TplIdle ==
    /\ tSrcParts = <<>> /\ tKeys = <<>> /\ tParams = [k \in ParamKeys |-> AbsentParam]
    /\ tDpPi = <<>> /\ tHasI = FALSE /\ tPartIdx = 0 /\ tPc = "idle" /\ tIdx = 0
    /\ tNumericIndex = 0 /\ tArgBuf = <<>> /\ tBuf = ""

SelserIdle ==
    /\ sNode = [nodeName |-> "P", dsr |-> UndefinedDsr, fostered |-> FALSE,
                misnested |-> FALSE, autoInsertedStart |-> FALSE,
                autoInsertedEnd |-> FALSE, diff |-> {}, origSrcValid |-> FALSE,
                encapWrapper |-> FALSE, hasChildren |-> FALSE,
                firstInDD |-> FALSE]
    /\ sSelserMode = FALSE /\ sInModifiedContent = FALSE
    /\ sCurrNodeUnmodified = FALSE
    /\ sConstraintInfo = ConstraintInfo("sibling", "prev", "node", "constraint")
    /\ sEntry = [node |-> sNode, inModifiedContent |-> FALSE]
    /\ sLocal = NoLocal /\ sOut = <<>> /\ sHandleCalls = <<>>
    /\ sPc = "idle" /\ sNext = Null

WalkIdle ==
    /\ wParent = [n \in WalkNodes |-> Body]
    /\ wKind = [n \in WalkNodes |-> "text"]
    /\ wSelserMode = FALSE /\ wTasks = <<>> /\ wOut = <<>> /\ wSep = NoSep
    /\ wPrevNodeUnmodified = FALSE /\ wCurrNodeUnmodified = FALSE
    /\ wSuspended = {} /\ wPc = "idle"
    /\ wLog = [n \in WalkNodes |-> <<>>]

ExtIdle ==
    /\ eDataMW = DataMW(<<>>, FALSE, Undefined, Undefined, Undefined)
    /\ eNode = [about |-> FALSE, typeof |-> FALSE, firstAHash |-> FALSE]
    /\ eDocs = [own |-> FALSE, edited |-> "none", innerHTML |-> ""]
    /\ eExtTok = <<>> /\ eSrcParts = <<>> /\ eHtmlText = "" /\ eLog = <<>>
    /\ ePc = "idle" /\ eResult = Null

PostIdle ==
    /\ pOut = <<>>
    /\ pFlags = NoFlags
    /\ pPc = "idle" /\ pRound = 0

HtmlIdle ==
    /\ xNode = [name |-> "div", wrapperUnmodified |-> FALSE]
    /\ xKids = <<>> /\ xNext = 0 /\ xSelserMode = FALSE
    /\ xInHTMLPre = FALSE /\ xInNoWiki = FALSE /\ xInIndentPre = FALSE
    /\ xEscapeText = FALSE /\ xOnSOL = FALSE /\ xCurrNodeUnmodified = FALSE
    /\ xSep = NoneSep /\ xChunks = <<>> /\ xPc = "idle"

NestedIdle ==
    /\ mParent = [i \in WalkNodes |-> Body]
    /\ mNode = [i \in WalkNodes |-> NestedNode({}, FALSE)]
    /\ mSelserMode = FALSE /\ mInModifiedContent = FALSE
    /\ mStack = <<>> /\ mCur = Body /\ mReused = {} /\ mPc = "idle"

ParseIdle ==
    /\ rArgv = NoArgv /\ rInput = "input" /\ rStages = <<>>
    /\ rResult = NoResult /\ rPc = "idle"

InitHandler == HandlerInit /\ AttrsIdle /\ TplIdle /\ SelserIdle /\ WalkIdle /\ ExtIdle /\ PostIdle /\ HtmlIdle /\ NestedIdle /\ ParseIdle

NextHandler == GetDOMHandler

SpecHandler == InitHandler /\ [][NextHandler]_vars

InitAttrs == AttrsInit /\ HandlerIdle /\ TplIdle /\ SelserIdle /\ WalkIdle /\ ExtIdle /\ PostIdle /\ HtmlIdle /\ NestedIdle /\ ParseIdle

NextAttrs == AttrReduce \/ AttrSpread \/ AttrRestore

SpecAttrs == InitAttrs /\ [][NextAttrs]_vars

InitTpl == TplInit /\ HandlerIdle /\ AttrsIdle /\ SelserIdle /\ WalkIdle /\ ExtIdle /\ PostIdle /\ HtmlIdle /\ NestedIdle /\ ParseIdle

NextTpl ==
    \/ TplStringPart \/ TplStart \/ TplOldParam \/ TplOldDone
    \/ TplNewParam \/ TplJoin \/ TplReturn

SpecTpl == InitTpl /\ [][NextTpl]_vars

InitSelser == SelserInit /\ HandlerIdle /\ AttrsIdle /\ TplIdle /\ WalkIdle /\ ExtIdle /\ PostIdle /\ HtmlIdle /\ NestedIdle /\ ParseIdle

NextSelser == SerializeDOMNode \/ HandleResolves \/ HandleRejects

SpecSelser == InitSelser /\ [][NextSelser]_vars

InitWalk == WalkInit /\ HandlerIdle /\ AttrsIdle /\ TplIdle /\ SelserIdle /\ ExtIdle /\ PostIdle /\ HtmlIdle /\ NestedIdle /\ ParseIdle

NextWalk ==
    \/ WalkSerializeNode \/ WalkMethod \/ WalkHandlerClose
    \/ WalkChildrenDone \/ WalkThen \/ WalkSuspend \/ WalkResume

SpecWalk == InitWalk /\ [][NextWalk]_vars

InitExt == ExtInit /\ HandlerIdle /\ AttrsIdle /\ TplIdle /\ SelserIdle /\ WalkIdle /\ PostIdle /\ HtmlIdle /\ NestedIdle /\ ParseIdle

NextExt ==
    \/ ExtStart \/ ExtAttrsResolved \/ ExtBodySerialized \/ ExtClose
    \/ ExtJoin

SpecExt == InitExt /\ [][NextExt]_vars

InitPost == PostInit /\ HandlerIdle /\ AttrsIdle /\ TplIdle /\ SelserIdle /\ WalkIdle /\ ExtIdle /\ HtmlIdle /\ NestedIdle /\ ParseIdle

NextPost == PostIndentPre \/ PostQuote \/ PostTrailing \/ PostAgain

SpecPost == InitPost /\ [][NextPost]_vars

InitHtml == HtmlInit /\ HandlerIdle /\ AttrsIdle /\ TplIdle /\ SelserIdle /\ WalkIdle /\ ExtIdle /\ PostIdle /\ NestedIdle /\ ParseIdle

NextHtml ==
    \/ HtmlOpenTag \/ HtmlOpenTagEmitted \/ HtmlAttributesReject
    \/ HtmlTextNode \/ HtmlChildElement \/ HtmlChildFails \/ HtmlEndTag

SpecHtml == InitHtml /\ [][NextHtml]_vars

InitNested == NestedInit /\ HandlerIdle /\ AttrsIdle /\ TplIdle /\ SelserIdle /\ WalkIdle /\ ExtIdle /\ PostIdle /\ HtmlIdle /\ ParseIdle

NextNested ==
    \/ NestedSerializeDOMNode \/ NestedHandleResolves
    \/ NestedHandleRejects \/ NestedBodyDone

SpecNested == InitNested /\ [][NextNested]_vars

InitParse == ParseInit /\ HandlerIdle /\ AttrsIdle /\ TplIdle /\ SelserIdle /\ WalkIdle /\ ExtIdle /\ PostIdle /\ HtmlIdle /\ NestedIdle

NextParse == parse \/ startsAtHTML \/ startsAtWikitext

SpecParse == InitParse /\ [][NextParse]_vars

(***************************************************************************)
(* Claims                                                                  *)
(***************************************************************************)

\* Where the chunks produced for a and for its descendants are in the output
wChunksOf(a) ==
    {i \in 1..Len(wOut) :
        wOut[i].t = "chunk" /\ a \in AncestorsOrSelf(wParent, wOut[i].n)}

\* Where the separator resolved between a and b is in the output
wSepsOf(a, b) ==
    {i \in 1..Len(wOut) : wOut[i].t = "sep" /\ <<a, b>> \in wOut[i].pairs}

wSiblings(a, b) == a < b /\ wParent[a] = wParent[b]

\* b is the sibling the walker separates from a, and both have chunks
wNeighbours(a, b) ==
    /\ wSiblings(a, b)
    /\ wKind[a] \notin SepKinds
    /\ NextOrParent(a) = b
    /\ wChunksOf(a) # {} /\ wChunksOf(b) # {}

wChunksInSiblingOrder ==
    \A a, b \in WalkNodes :
        wSiblings(a, b) =>
            \A i \in wChunksOf(a), j \in wChunksOf(b) : i < j

wOneSeparatorBetweenNeighbours ==
    \A a, b \in WalkNodes :
        wNeighbours(a, b) =>
            /\ Cardinality(wSepsOf(a, b)) = 1
            /\ \A k \in wSepsOf(a, b) :
                  SetMax(wChunksOf(a)) < k /\ k < SetMin(wChunksOf(b))
            /\ Cardinality({k \in 1..Len(wOut) :
                                /\ wOut[k].t = "sep"
                                /\ SetMax(wChunksOf(a)) < k
                                /\ k < SetMin(wChunksOf(b))}) = 1

\* C1: for siblings A before B, every chunk of A and of A's descendants is
\* in the output before any chunk of B, however often the handlers inside A
\* have waited, and once the walk is done the separator resolved between A
\* and B is in the output exactly once, between the two.
C1_SiblingOrderAndOneSeparator ==
    /\ wChunksInSiblingOrder
    /\ wPc = "done" => wOneSeparatorBetweenNeighbours

\* A's handler has waited, A has emitted around a child, and B has emitted
C1_Witness ==
    /\ wPc = "done"
    /\ \E a, b \in WalkNodes :
          /\ wNeighbours(a, b)
          /\ a \in wSuspended
          /\ wKind[a] = "elt"
          /\ \E c \in childNodes(a) : wChunksOf(c) # {} /\ c \in wSuspended

\* Original source was emitted for the node as a whole
sReusedSource == \E i \in 1..Len(sOut) : sOut[i].kind = "origSrc"

sReturned == sPc \in {"handling", "done", "failed"}

\* C2: a node whose original source is emitted through the selser reuse
\* path never has domHandler.handle invoked for it.
C2_ReusedNodeNeverHandled == sReusedSource => sHandleCalls = <<>>

C2_Witness ==
    /\ sPc = "done" /\ sReusedSource /\ sHandleCalls = <<>>
    /\ sNext = "nextSibling"

\* The reuse condition in the words of claim C3, on the node and the state
\* as the call found them
sStatedReuseCondition ==
    LET n == sEntry.node IN
    /\ sSelserMode
    /\ ~sEntry.inModifiedContent
    /\ n.origSrcValid
    /\ n.dsr.kind = "array" /\ n.dsr.len >= 2
    /\ 0 <= n.dsr.s /\ n.dsr.s <= n.dsr.e
    /\ \/ n.dsr.e > n.dsr.s
       \/ n.dsr.e = n.dsr.s /\ n.nodeName \in {"P", "BR", "OL"}
       \/ n.fostered
       \/ n.misnested
    /\ n.diff = {}

\* C3: an element is serialized by verbatim source reuse if and only if
\* selser mode is on, the serializer is not inside modified content, the
\* original source is valid in the edited context, the DSR is valid, the
\* width condition holds and the node has no diff markers; in every other
\* case the handler is invoked and no original source is emitted for the
\* node as a whole.
C3_ReuseIffStatedCondition ==
    sReturned =>
        /\ sReusedSource <=> sStatedReuseCondition
        /\ ~sStatedReuseCondition =>
              Len(sHandleCalls) = 1 /\ ~sReusedSource

\* A fostered node with an invalid DSR, every other condition met
C3_Witness ==
    /\ sPc = "done" /\ sSelserMode /\ ~sEntry.inModifiedContent
    /\ sEntry.node.origSrcValid /\ sEntry.node.diff = {}
    /\ sEntry.node.fostered /\ sEntry.node.dsr.s > sEntry.node.dsr.e
    /\ Len(sHandleCalls) = 1 /\ ~sReusedSource

\* The (tag, stx) registry key of the node
hKey == toLowerCase(hNode.nodeName) \o "_" \o hNode.stx

hPlainElt == hPc = "done" /\ hNode.kind = "elt" /\ ~hNode.encap

\* The parent shape claim C5 describes, in the claim's words
hNewUnderHTMLListOrTable ==
    /\ hNode.isNew
    /\ hNode.parentStx = "html"
    /\ \/ (hNode.parentName \in {"DL", "UL", "OL"}
           /\ hNode.nodeName \in {"LI", "DD", "DT"})
       \/ (hNode.parentName \in {"TABLE", "TBODY", "THEAD", "TFOOT", "TR"}
           /\ hNode.nodeName \in
                {"TBODY", "THEAD", "TFOOT", "TR", "CAPTION", "TH", "TD"})

\* C4 (as stated): for an element that is not an encapsulation wrapper, a
\* handler registered for (tag, stx) is the one _getDOMHandler returns,
\* whatever the newness of the node and the parent's tag and syntax.
C4_RegisteredHandlerAlwaysReturned ==
    (hPlainElt /\ hKey \in hReg) => hResult = hKey

\* C4 (amended): a handler registered for (tag, stx) is returned unless the
\* node is a new list item / table child under an html-syntax list / table
\* parent, in which case the generic HTML element handler is returned.
C4_RegisteredHandlerUnlessNewInHTMLParent ==
    (hPlainElt /\ hKey \in hReg) =>
        hResult = (IF hNewUnderHTMLListOrTable THEN htmlElementHandler ELSE hKey)

C4_Witness ==
    /\ hPlainElt /\ hKey \in hReg /\ hResult = hKey
    /\ hNode.isNew /\ hNode.parentStx = "html" /\ hNode.stx = "html"

\* C5: a new element that is not an encapsulation wrapper and is a list item
\* in an html-syntax list, or a child-table tag in an html-syntax parent-table
\* tag, gets the generic HTML element handler.
C5_NewChildOfHTMLParentGetsHTMLHandler ==
    (hPlainElt /\ hNewUnderHTMLListOrTable) => hResult = htmlElementHandler

C5_Witness ==
    /\ hPlainElt /\ hNewUnderHTMLListOrTable
    /\ hKey \in hReg /\ toLowerCase(hNode.nodeName) \in hReg
    /\ hResult = htmlElementHandler

\* The ignore set, as the specification lists it
IgnoreSet ==
    {"data-parsoid", "data-mw", "data-ve-changed", "data-parsoid-changed",
     "data-parsoid-diff", "data-parsoid-serialize"}

aLiveKeys == {aAttribs[i].k : i \in 1..Len(aAttribs)}

aParsoidIds ==
    {i \in 1..Len(aAttribs) : aAttribs[i].k = "id" /\ aAttribs[i].v = "mwAB"}

\* C6 (as stated): no entry of the output has an emitted key in the ignore
\* set, whether the key is a live one, one left by stripping data-x-, one
\* resolved from a templated source or one restored from sa.
C6_NoEmittedKeyInIgnoreSet ==
    \A i \in 1..Len(aOut) : aOut[i].key \notin IgnoreSet

\* C6 (amended): no live attribute whose own key is in the ignore set is
\* emitted; an emitted key of the ignore set comes only from stripping a
\* data-x- prefix, from a templated key or from the sanitized-away record.
C6_NoLiveIgnoredAttributeEmitted ==
    \A i \in 1..Len(aOut) :
        /\ aOut[i].from = "live" => aAttribs[aOut[i].idx].k \notin IgnoreSet
        /\ aOut[i].key \in IgnoreSet =>
              \/ aOut[i].from = "restored"
              \/ aAttribs[aOut[i].idx].k # aOut[i].key

C6_Witness ==
    /\ aPc = "done"
    /\ aAttribs = <<[k |-> "data-mw", v |-> "{}"], [k |-> "class", v |-> "foo"]>>
    /\ aResult = "class=\"foo\""

aRestoredOut == SelectSeq(aOut, LAMBDA e : e.from = "restored")

aRestoredAfterLive ==
    \A i, j \in 1..Len(aOut) :
        (aOut[i].from = "restored" /\ aOut[j].from = "live") => j < i

aNoLiveKeyRestored ==
    \A i \in 1..Len(aOut) : aOut[i].from = "restored" => aOut[i].key \notin aLiveKeys

\* C8 (as stated): every attribute recorded in sa and absent from the live
\* list is restored with its sa value, after all live attributes, and no
\* live attribute is emitted again by the restoration.
C8_EverySaAttributeRestored ==
    aPc = "done" =>
        /\ \A e \in aDA.sa : e.k \notin aLiveKeys =>
              \E i \in 1..Len(aOut) :
                  /\ aOut[i].from = "restored" /\ aOut[i].key = e.k
                  /\ aOut[i].str = e.k \o "=\"" \o ReplaceQuot(e.v) \o "\""
        /\ aRestoredAfterLive
        /\ aNoLiveKeyRestored

\* The keys of a that have no live attribute, when a and sa are both present
aMissingKeys ==
    IF aDA.hasA /\ aDA.hasSa
    THEN SelectSeq(aDA.a, LAMBDA k : k \notin aLiveKeys)
    ELSE <<>>

\* C8 (amended): the restoration emits, in the key order of a, every key of
\* a (when a and sa are both present) that has no live attribute, with its sa
\* value when sa holds a non-empty one and as a bare key otherwise; a key
\* recorded in sa alone is not restored; restored attributes follow all live
\* ones and no live attribute is emitted again.
C8_KeysOfARestoredAfterLive ==
    aPc = "done" =>
        /\ Len(aRestoredOut) = Len(aMissingKeys)
        /\ \A j \in 1..Len(aMissingKeys) :
              LET k == aMissingKeys[j]
                  inSa == \E e \in aDA.sa : e.k = k /\ e.v # ""
              IN /\ aRestoredOut[j].key = k
                 /\ aRestoredOut[j].str =
                       (IF inSa
                        THEN k \o "=\"" \o
                             ReplaceQuot((CHOOSE e \in aDA.sa : e.k = k).v) \o "\""
                        ELSE k)
        /\ aRestoredAfterLive
        /\ aNoLiveKeyRestored

C8_Witness ==
    /\ aPc = "done"
    /\ aAttribs = <<[k |-> "class", v |-> "foo"]>>
    /\ aDA.a = <<"style">> /\ aDA.sa = {[k |-> "style", v |-> "color:red"]}
    /\ aResult = "class=\"foo\" style=\"color:red\""

\* The keys pushArg was called with, in argBuf order
tEmittedKeys == [i \in 1..Len(tArgBuf) |-> tArgBuf[i].k]

\* The names of the parameters of params, in Object.keys order (a parameter's
\* name is its key trimmed of whitespace)
tParamNames == [i \in 1..Len(tKeys) |-> TrimKey(tKeys[i])]

tPiKeys == IF tHasI THEN [i \in 1..Len(tDpPi) |-> tDpPi[i].k] ELSE <<>>

tTemplateDone == tPc = "done" /\ Len(tKeys) > 0

\* C9: the arguments are the parameters pi lists, in pi order, without those
\* no longer in params, followed by the parameters pi does not list, in the
\* key order of params.
C9_PiOrderThenNewParams ==
    tTemplateDone =>
        tEmittedKeys =
            SelectSeq(tPiKeys, LAMBDA k : k \in Range(tKeys)) \o
            SelectSeq(tParamNames, LAMBDA k : k \notin Range(tPiKeys))

C9_Witness ==
    /\ tTemplateDone
    /\ tKeys = <<"1", "x">> /\ tPiKeys = <<"x">>
    /\ tEmittedKeys = <<"x", "1">>

\* The positional counter when argument i was pushed: one more than the
\* positional arguments before it
tCounterAt(i) == 1 + Cardinality({j \in 1..i - 1 : ~tArgBuf[j].named})

tArgForm(i) ==
    LET e == tArgBuf[i]
    IN /\ e.num = tCounterAt(i)
       /\ e.str = IF e.named
                  THEN e.spc[1] \o e.paramName \o e.spc[2] \o "=" \o e.spc[3]
                       \o TrimValue(e.v) \o e.spc[4]
                  ELSE e.v

\* C10 (as stated): an argument is positional (the bare, untrimmed value) if
\* and only if its key equals the running positional counter and pi has no
\* named flag for it; every other one is name=value with the value trimmed.
C10_PositionalIffKeyIsCounter ==
    \A i \in 1..Len(tArgBuf) :
        /\ tArgForm(i)
        /\ ~tArgBuf[i].named <=>
              (tArgBuf[i].k = NumToString(tCounterAt(i)) /\ ~tArgBuf[i].piNamed)

\* C10 (amended): an argument is positional if and only if its key equals the
\* running positional counter, pi has no named flag for it, the parameter has
\* no key.wt and the escape oracle does not report the value as one that must
\* be named; every other one is name=value with the value trimmed.
C10_PositionalIffCounterAndNotForcedNamed ==
    \A i \in 1..Len(tArgBuf) :
        /\ tArgForm(i)
        /\ ~tArgBuf[i].named <=>
              /\ tArgBuf[i].k = NumToString(tCounterAt(i))
              /\ ~tArgBuf[i].piNamed
              /\ ~tArgBuf[i].hasKeyWt
              /\ ~tArgBuf[i].oracleNamed

C10_Witness ==
    /\ tPc = "done"
    /\ Len(tArgBuf) = 2
    /\ tArgBuf[1].k = "1" /\ tArgBuf[1].piNamed /\ tArgBuf[1].str = "1 = a"
    /\ tArgBuf[2].k = "2" /\ tArgBuf[2].str = "2 = b"

\* The template of claim C11: target echo, params {1: {wt: a}, x: {wt: b}},
\* i = 0 and pi = [[{k: 1}]]
tEchoCase ==
    /\ tSrcParts = <<TplPart>>
    /\ tKeys = <<"1", "x">>
    /\ tParams["1"] = Param("a", Undefined, Undefined)
    /\ tParams["x"] = Param("b", Undefined, Undefined)
    /\ tHasI /\ tDpPi = <<ParamInfo("1", FALSE, NoSpc)>>

\* C11 as stated: for that template _buildTemplateWT returns {{echo|a|x=b}}.
C11_EchoWithoutSpacing ==
    (tPc = "done" /\ tEchoCase) => tBuf = "{{echo|a|x=b}}"

\* C11: for that template _buildTemplateWT returns {{echo|a|x = b}}: the
\* new named parameter x has no spc recorded and takes the default spacing.
C11_EchoWithDefaultSpacing ==
    (tPc = "done" /\ tEchoCase) => tBuf = "{{echo|a|x = b}}"

C11_Witness ==
    /\ tPc = "done" /\ tEchoCase
    /\ Len(tArgBuf) = 2
    /\ ~tArgBuf[1].named /\ tArgBuf[1].str = "a"
    /\ tArgBuf[2].named /\ tArgBuf[2].k = "x"

\* The markup of the extension call around a body
eMarkup(body) ==
    "<ref" \o (IF "name" \in Range(eDataMW.attrs) THEN " name=\"a\"" ELSE "")
           \o ">" \o body \o "</ref>"

\* The three sources of the body, in the words of claim C12
eHtmlResolves == eDataMW.html \notin {Undefined, ""}

eIdResolves ==
    eDataMW.id # Undefined /\ (eDocs.own \/ eDocs.edited = "hit")

eExtsrcResolves == eDataMW.extsrc \notin {Null, Undefined}

eReturned == eDataMW.hasBody /\ ePc \in {"done", "failed"}

\* C12 as stated: the body is taken from the first of body.html, the element
\* of body.id and body.extsrc that resolves, and exactly when none resolves
\* an error is logged and the empty string is returned.
C12_FirstSourceThatResolves ==
    eReturned =>
        IF eHtmlResolves \/ eIdResolves \/ eExtsrcResolves
        THEN /\ ePc = "done" /\ eLog = <<>>
             /\ eResult =
                   eMarkup(IF eHtmlResolves THEN serializeBodyHTML(eDataMW.html)
                           ELSE IF eIdResolves
                                THEN serializeBodyHTML(eDocs.innerHTML)
                           ELSE eDataMW.extsrc)
        ELSE ePc = "done" /\ Len(eLog) = 1 /\ eResult = ""

\* body.html is not a non-empty string, and body.html or body.id is a string
eLooksForElement ==
    ~eHtmlResolves /\ (eDataMW.html # Undefined \/ eDataMW.id # Undefined)

\* C12: a non-empty body.html is the body; otherwise, when body.html or
\* body.id is a string, the element of body.id (current document, then edited
\* document) is the body, and when it is not found the call is dropped with
\* an error logged (the empty string is returned, body.extsrc is not looked
\* at), or the handler fails when the node holds a fragment link and there is
\* no edited document; body.extsrc is the body only when neither body.html
\* nor body.id is a string, and without it an error is logged and the markup
\* is returned with an empty body.
C12_BodySourceByBranch ==
    eReturned =>
        CASE eHtmlResolves ->
                /\ ePc = "done" /\ eLog = <<>>
                /\ eResult = eMarkup(serializeBodyHTML(eDataMW.html))
          [] eLooksForElement /\ eIdResolves ->
                /\ ePc = "done" /\ eLog = <<>>
                /\ eResult = eMarkup(serializeBodyHTML(eDocs.innerHTML))
          [] eLooksForElement /\ ~eIdResolves ->
                IF eNode.firstAHash /\ eDocs.edited = "none"
                THEN ePc = "failed" /\ eLog = <<>> /\ eResult = Null
                ELSE ePc = "done" /\ eLog = <<"error/ref">> /\ eResult = ""
          [] OTHER ->
                /\ ePc = "done"
                /\ IF eExtsrcResolves
                   THEN eLog = <<>> /\ eResult = eMarkup(eDataMW.extsrc)
                   ELSE eLog = <<"error">> /\ eResult = eMarkup("")

\* The element of body.id is not found, body.extsrc is there, and the call
\* is dropped
C12_Witness ==
    /\ ePc = "done" /\ eDataMW.hasBody
    /\ eDataMW.html = Undefined /\ eDataMW.id # Undefined
    /\ ~eIdResolves /\ eExtsrcResolves
    /\ eResult = "" /\ eLog = <<"error/ref">>

(***************************************************************************)
(* The post-pass                                                           *)
(***************************************************************************)
\* C13: applying the three rewrites of the post-pass a second time, with the
\* same flags, to the buffer the first application returned changes nothing.
C13_SecondApplicationChangesNothing ==
    [][pRound = 2 => pOut' = pOut]_vars

\* What the quote-nowiki pass makes of ''<nowiki/>'foo'<nowiki/>''
pStrippedItalicQuotedFoo ==
    <<Quote, Quote, SelfClosingNowiki, Quote, "foo", Quote, Quote, Quote>>

pQuotePassOn(out) ==
    pPc = "quote" /\ pFlags.hasQuoteNowikis /\ pOut = out

\* C14 (as stated): with hasQuoteNowikis set, the quote-nowiki pass turns the
\* line ''<nowiki/>'foo'<nowiki/>'' into ''<nowiki/>'foo'' (two quotes after
\* foo).
C14_TwoQuotesAfterFoo ==
    [][pQuotePassOn(<<ItalicQuotedFoo>>)
        => Render(pOut'[1]) = "''<nowiki/>'foo''"]_vars

\* C14 (amended): with hasQuoteNowikis set, the quote-nowiki pass turns the
\* line ''<nowiki/>'foo'<nowiki/>'' into ''<nowiki/>'foo''' (the quote that
\* closes 'foo' and the two of the italic marker): only the trailing
\* <nowiki/> is stripped and the leading one is kept.
C14_ThreeQuotesAfterFoo ==
    [][pQuotePassOn(<<ItalicQuotedFoo>>)
        => /\ pOut' = <<pStrippedItalicQuotedFoo>>
           /\ Render(pOut'[1]) = "''<nowiki/>'foo'''"]_vars

C14_Witness ==
    /\ pPc = "trailing" /\ pRound = 1 /\ pFlags.hasQuoteNowikis
    /\ pOut = <<pStrippedItalicQuotedFoo>>

\* The scan left the line at a closer that does not match, or ended with an
\* opener on the stack
pStackFails(line) ==
    LET st == ScanLine(line) IN st.returned \/ st.stack # <<>>

\* The scan ended inside a <ref> or a <nowiki> region
pRegionOpen(line) ==
    LET st == ScanLine(line) IN ~st.returned /\ (st.ref \/ st.nowiki)

\* The scan saw a strippable <nowiki/>
pSawStrippable(line) ==
    HasQuoteAndNowiki(line) /\ ScanLine(line).nowikiIndex # 0

pQuotePass == pPc = "quote" /\ pFlags.hasQuoteNowikis

\* C15 (as stated): the quote-nowiki pass returns unchanged every line on
\* which pairing fails: a closer that does not match the top of the stack, an
\* opener left on the stack at the end of the line, or a <ref> or <nowiki>
\* region left open; the other lines of the buffer are rewritten as if they
\* stood alone.
C15_OpenRegionKeepsLine ==
    [][pQuotePass
        => \A i \in 1..Len(pOut) :
              /\ pStackFails(pOut[i]) \/ pRegionOpen(pOut[i])
                    => pOut'[i] = pOut[i]
              /\ pOut'[i] = stripQuoteNowiki(pOut[i])]_vars

\* C15 (amended): the quote-nowiki pass returns unchanged every line on which
\* a closer does not match the top of the stack or an opener is left on the
\* stack at the end of the line, even if a strippable <nowiki/> was seen; a
\* <ref> or <nowiki> region left open is not such a failure: what follows it
\* is skipped, and with an empty stack the last strippable <nowiki/> seen
\* before it is stripped.  The other lines of the buffer are rewritten as if
\* they stood alone.
C15_StackFailureKeepsLine ==
    [][pQuotePass
        => /\ Len(pOut') = Len(pOut)
           /\ \A i \in 1..Len(pOut) :
                /\ pStackFails(pOut[i]) => pOut'[i] = pOut[i]
                /\ pRegionOpen(pOut[i]) /\ ~pStackFails(pOut[i])
                        /\ pSawStrippable(pOut[i])
                    => /\ pOut'[i] # pOut[i]
                       /\ Len(pOut'[i]) = Len(pOut[i]) - 1
                /\ pOut'[i] = stripQuoteNowiki(pOut[i])]_vars

\* A buffer of two lines went through the pass: the first saw a strippable
\* <nowiki/> and then failed, the second was rewritten
C15_Witness ==
    /\ pPc = "trailing" /\ pRound = 1 /\ pFlags.hasQuoteNowikis
    /\ ~pFlags.hasIndentPreNowikis
    /\ pOut = <<Strippable1 \o <<"]]">>, <<"foo", Quote, "bar">>>>

\* What the claims about the indent-pre pass say of a line that matches
pPrefix(line) == SubSeq(line, 1, IndentPreMatch(line).pre)

pBlanks(line) ==
    LET m == IndentPreMatch(line)
    IN  SubSeq(line, m.pre + 2, m.pre + m.ws + 1)

pRest(line) ==
    LET m == IndentPreMatch(line)
    IN  SubSeq(line, m.pre + m.ws + 3, Len(line))

pMatches(line) == IndentPreMatch(line).ws > 0

pTagsRemoved(line, new) == new = pPrefix(line) \o pBlanks(line) \o pRest(line)

pBothRemoved(line, new) ==
    \E k \in 1..(Len(pRest(line)) + 1) :
        new = pPrefix(line) \o SubSeq(pRest(line), k, Len(pRest(line)))

pBlockTagAtoms == {"<div>", "</div>", "<hr/>"}

pHasBlockTag(rest) == \E i \in 1..Len(rest) : rest[i] \in pBlockTagAtoms

\* The tags the pass takes for HTML5 tags: a tag closed by '/>' right after
\* its name is not one of them, its name is read with the '/'
pSeenAsHTML5(atom) ==
    atom \in {"<i>", "</i>", "<div>", "</div>", "<span>", "</span>", "<br>"}

pOnlyHTML5Tags(rest) ==
    \A i \in 1..Len(rest) :
        rest[i] \in TagAtoms \ {"[[", "]]", "{{", "}}"}
            => pSeenAsHTML5(rest[i])

pIndentPrePass == pPc = "indentPre" /\ pFlags.hasIndentPreNowikis

pIndentPreOutcome(line, new, strip) ==
    IF strip THEN pTagsRemoved(line, new)
    ELSE IF pFlags.scrubWikitext
    THEN pBothRemoved(line, new) /\ ~pTagsRemoved(line, new)
    ELSE new = line

\* C16 (as stated): on a line SOL + transparent prefix +
\* <nowiki>blanks</nowiki> + rest, the indent-pre pass removes the nowiki
\* tags and keeps the blanks iff rest is all SOL-transparent or has at least
\* one block-level HTML tag; otherwise it keeps the nowiki, or with
\* scrubWikitext removes the nowiki and its blanks.
C16_StripIffTransparentOrBlockTag ==
    [][pIndentPrePass
        => \A i \in 1..Len(pOut) :
              pMatches(pOut[i])
                => pIndentPreOutcome(pOut[i], pOut'[i],
                       IsSolTransparent(pRest(pOut[i]))
                           \/ pHasBlockTag(pRest(pOut[i])))]_vars

\* C16 (amended): on such a line the pass removes the nowiki tags and keeps
\* the blanks iff rest is all SOL-transparent, or has at least one
\* block-level HTML tag and no tag that the pass does not take for an HTML5
\* tag (an extension tag such as <ref>, a <nowiki>, a tag closed by '/>' right
\* after its name);
\* otherwise it keeps the nowiki, or with scrubWikitext removes the nowiki
\* and its blanks.
C16_StripIffTransparentOrOnlyHTML5WithBlockTag ==
    [][pIndentPrePass
        => \A i \in 1..Len(pOut) :
              pMatches(pOut[i])
                => pIndentPreOutcome(pOut[i], pOut'[i],
                       IsSolTransparent(pRest(pOut[i]))
                           \/ (pHasBlockTag(pRest(pOut[i]))
                                /\ pOnlyHTML5Tags(pRest(pOut[i]))))]_vars

\* The pass went over <nowiki> </nowiki><div>x</div><ref>x</ref> and kept
\* the nowiki, and over <nowiki> </nowiki><div> and removed its tags
C16_Witness ==
    /\ pPc = "quote" /\ pRound = 1
    /\ pFlags.hasIndentPreNowikis /\ ~pFlags.scrubWikitext
    /\ pOut = <<<<"<nowiki>", " ", "</nowiki>", "<div>", "x", "</div>",
                  "<ref>", "x", "</ref>">>,
                <<" ", "<div>">>>>

(***************************************************************************)
(* The context flags of text emission                                      *)
(***************************************************************************)
\* C17: inHTMLPre is balanced across an HTML-syntax <pre>: it is set when the
\* open tag is serialized and is false again when the end tag has been
\* serialized, whatever wrapperUnmodified is, and also when the handler fails
\* in between; so it is false after every serialization.
C17_InHTMLPreFalseAfterwards ==
    /\ xPc \in {"opened", "children"} /\ xNode.name = "pre" => xInHTMLPre
    /\ xPc \in {"done", "failed"} => ~xInHTMLPre

\* The text node that the step serializes, when it is one of
\* _serializeTextNode
xTextStep ==
    /\ xPc = "children" /\ xNext <= Len(xKids) /\ xKids[xNext].isText
    /\ xNext' = xNext + 1

xLastChunk(chunks) == chunks[Len(chunks)]

\* The text emitted for nodeValue outside an indent-pre block, with the runs
\* of blank lines collapsed or not
xTextBody(nodeValue, collapsed) ==
    escapeTextEntities(StripSepPrefix(
        IF collapsed THEN StripDoubleNewlines(StripSepSuffix(nodeValue))
        ELSE StripSepSuffix(nodeValue)))

xTextEmittedAs(collapsed) ==
    xLastChunk(xChunks').text = xTextBody(xKids[xNext].nodeValue, collapsed)

\* C18 (as stated): outside an indent-pre block the runs of a newline and
\* blank lines of a text are collapsed to one newline in every case but one:
\* inHTMLPre is set, the parent's children are all text and the text has
\* exactly one such run.
C18_CollapsedUnlessPreWithOneBlankLine ==
    [][xTextStep /\ ~xInIndentPre
        => xTextEmittedAs(~(/\ xInHTMLPre
                            /\ allChildrenAreText(xKids)
                            /\ DoubleNewlineCount(xKids[xNext].nodeValue) = 1))
      ]_vars

\* C18 (amended): outside an indent-pre block the runs of a newline and blank
\* lines of a text are collapsed to one newline in every case but two: when
\* inHTMLPre is set, and when the parent's children are all text and the
\* text has exactly one such run.  In particular they are kept when inHTMLPre
\* is not set and the parent has only text children with exactly one blank
\* line, and when inHTMLPre is set and the text has two or more runs.
C18_CollapsedUnlessPreOrOneBlankLine ==
    [][xTextStep /\ ~xInIndentPre
        => xTextEmittedAs(
              /\ ~xInHTMLPre
              /\ ~(/\ allChildrenAreText(xKids)
                   /\ DoubleNewlineCount(xKids[xNext].nodeValue) = 1))
      ]_vars

\* The text of <div>a, a blank line, a</div> was emitted with its blank line,
\* and that of a <pre> with its two
C18_Witness ==
    \/ /\ xNode.name = "div" /\ ~xInIndentPre /\ xPc = "done"
       /\ xKids = <<TextKid(OneBlankLine)>>
       /\ \E i \in 1..Len(xChunks) :
            xChunks[i].byText /\ xChunks[i].text = OneBlankLine
    \/ /\ xNode.name = "pre" /\ ~xInIndentPre /\ xPc = "done"
       /\ \E i \in 1..Len(xChunks) :
            /\ xChunks[i].byText
            /\ xChunks[i].text = <<"a", NL, NL, "a", NL, NL, "a">>

\* C19: escapeText is true only during the emitChunk call of a text node,
\* where it is (onSOL or not currNodeUnmodified) and not inNoWiki and not
\* inHTMLPre; it is false in every state before and after the call, so no
\* chunk goes to the escape handlers while inNoWiki or inHTMLPre is set, and
\* no chunk of a handler is emitted with escapeText true.
C19_EscapeTextOnlyForText ==
    /\ ~xEscapeText
    /\ \A i \in 1..Len(xChunks) :
         LET c == xChunks[i]
         IN  /\ ~c.byText => ~c.escapeText
             /\ c.inNoWiki \/ c.inHTMLPre => ~c.escapeText
             /\ c.byText
                  => c.escapeText = ((c.onSOL \/ ~c.currNodeUnmodified)
                                        /\ ~c.inNoWiki /\ ~c.inHTMLPre)

\* A text was emitted with escapeText true, and after it the chunk of a
\* handler with escapeText false
C19_Witness ==
    /\ xPc = "done"
    /\ \E i \in 1..Len(xChunks) :
         /\ xChunks[i].byText /\ xChunks[i].escapeText
         /\ \E k \in (i + 1)..Len(xChunks) : ~xChunks[k].byText

\* C20: serializing leaves the DOM and what is attached to it as they were:
\* the params map of a template of data-mw is the same after every step of
\* _buildTemplateWT.
C20_ParamsMapUnchanged ==
    [][tParams' = tParams]_vars

\* The reuse conditions of the node at entry, the diff markers left aside
sReuseConditionsButMarkers ==
    LET n == sEntry.node IN
    /\ sSelserMode
    /\ ~sEntry.inModifiedContent
    /\ n.origSrcValid
    /\ n.dsr.kind = "array" /\ n.dsr.len >= 2
    /\ 0 <= n.dsr.s /\ n.dsr.s <= n.dsr.e
    /\ \/ n.dsr.e > n.dsr.s
       \/ n.dsr.e = n.dsr.s /\ n.nodeName \in {"P", "BR", "OL"}
       \/ n.fostered
       \/ n.misnested

\* What the wrapper of the node at entry has to satisfy on top of them
sStatedWrapperCondition ==
    LET n == sEntry.node IN
    /\ sReuseConditionsButMarkers
    /\ n.diff # {} /\ "inserted" \notin n.diff
    /\ n.dsr.len = 4
    /\ \/ ~n.autoInsertedStart /\ ~n.autoInsertedEnd
       \/ n.nodeName \in {"TD", "TH", "TR"}

\* C21: the handler is invoked with wrapperUnmodified = true exactly when
\* the node passed every reuse condition but the absence of diff markers,
\* only its subtree changed, the DSR tag widths are valid, and either no tag
\* was auto-inserted or the node is a TD, TH or TR; in every other case it
\* is invoked with wrapperUnmodified = false.
C21_WrapperUnmodifiedIffStatedCondition ==
    \A i \in 1..Len(sHandleCalls) :
        sHandleCalls[i].wrapperUnmodified <=> sStatedWrapperCondition

\* A TD with an auto-inserted end tag whose subtree changed is handled with
\* wrapperUnmodified = true
C21_Witness ==
    /\ Len(sHandleCalls) = 1 /\ sHandleCalls[1].wrapperUnmodified
    /\ sEntry.node.nodeName = "TD" /\ sEntry.node.autoInsertedEnd
    /\ sEntry.node.diff = {"subtree-changed"}

\* The handler of an element that carries an inserted diff mark is running
mInsertedHandlerRunning ==
    \E i \in 1..Len(mStack) : "inserted" \in mNode[mStack[i].n].diff

RECURSIVE mProperAncestors(_)
mProperAncestors(n) ==
    IF mParent[n] = Body THEN {}
    ELSE {mParent[n]} \cup mProperAncestors(mParent[n])

\* An element below an element with an inserted diff mark was emitted from
\* original source
mReusedBelowInserted ==
    \E n \in mReused :
        \E a \in mProperAncestors(n) : "inserted" \in mNode[a].diff

\* C24: in selser mode state.inModifiedContent is true all the time the
\* handler of an element with an inserted diff mark is running, its
\* descendants included (also when a descendant carries an inserted diff
\* mark itself), and false again once the outermost such handler has
\* completed or failed; so no descendant of an inserted element is emitted
\* through the reuse path.
C24_InModifiedContentWhileInsertedHandlerRuns ==
    mSelserMode =>
        /\ mPc = "walking" /\ mInsertedHandlerRunning => mInModifiedContent
        /\ mPc \in {"walking", "done", "failed"} /\ ~mInsertedHandlerRunning
              => ~mInModifiedContent
        /\ ~mReusedBelowInserted

\* The objects that have a handle operation: the generic HTML element
\* handler, the handler of encapsulated content and the registered handlers
hHasHandle(h) ==
    h \in {"htmlElementHandler", "encapsulatedContentHandler"} \cup RegistryKeys

\* C22: for every element and every content of the registry _getDOMHandler
\* returns an object with a handle operation, the generic HTML element
\* handler when nothing else applies, so the assertion of _serializeNode
\* holds for every element; the empty object is returned for an absent node
\* and for a node that is not an element only.
C22_ElementAlwaysHasHandler ==
    hPc = "done" =>
        /\ hNode.kind = "elt" => hHasHandle(hResult)
        /\ hResult = "{}" <=> hNode.kind # "elt"

\* An element that nothing is registered for gets the generic handler from
\* the last alternative of line 687
C22_Witness ==
    /\ hPc = "done" /\ hNode.kind = "elt" /\ hReg = {}
    /\ hNode.stx = "undefined" /\ ~hNode.encap /\ ~hNode.isNew
    /\ hResult = "htmlElementHandler"

\* The siblings of n that are neither separator text, nor a comment, nor a
\* diff-marker meta
wContentSiblings(n) ==
    {i \in WalkNodes :
        /\ i # n /\ wParent[i] = wParent[n]
        /\ wKind[i] \notin {"sepText", "comment", "diffMarker"}}

\* The previous such sibling, or the parent
wPrevContent(n) ==
    LET S == {i \in wContentSiblings(n) : i < n}
    IN IF S = {} THEN wParent[n]
       ELSE CHOOSE i \in S : \A j \in S : j <= i

\* The next such sibling, or the parent
wNextContent(n) ==
    LET S == {i \in wContentSiblings(n) : i > n}
    IN IF S = {} THEN wParent[n]
       ELSE CHOOSE i \in S : \A j \in S : i <= j

\* The sibling that follows n in the document, Body if there is none
wSiblingAfter(n) ==
    LET S == {i \in WalkNodes : i > n /\ wParent[i] = wParent[n]}
    IN IF S = {} THEN Body
       ELSE CHOOSE i \in S : \A j \in S : i <= j

wLogWithoutEmits(n) == SelectSeq(wLog[n], LAMBDA e : e.ev # "emit")

\* The protocol of a node that is serialized
wFullProtocol(n) ==
    <<Ev("sepBefore", wPrevContent(n), n), Ev("method", n, n),
      Ev("sepAfter", n, wNextContent(n)), Ev("flags", n, n)>>

\* Chunks of n are emitted after its method has started and before the
\* second update of the separator constraints
wEmitsInsideMethod(n) ==
    \A i \in 1..Len(wLog[n]) :
        wLog[n][i].ev = "emit" =>
            /\ \E j \in 1..(i - 1) : wLog[n][j].ev = "method"
            /\ \A j \in 1..(i - 1) : wLog[n][j].ev # "sepAfter"

\* C23: for an element that is not a diff-marker meta and for a text node
\* that is not separator text, the separator constraints are updated once
\* before the node is emitted, between the previous non-separator sibling
\* (or the parent) and the node, and once after it, between the node and
\* the next non-separator sibling (or the parent), and the modification
\* flags are updated after the second update; for a diff-marker meta, a
\* comment and a separator text node there is no update of the separator
\* constraints, no handler or text emitter runs, and the walker goes on to
\* the next sibling.
C23_WalkerProtocolPerNode ==
    \A n \in WalkNodes :
        IF wKind[n] \in {"sepText", "comment", "diffMarker"}
        THEN /\ \A i \in 1..Len(wLog[n]) :
                    wLog[n][i].ev \notin {"sepBefore", "sepAfter", "method",
                                          "emit"}
             /\ wLog[n] # <<>> =>
                    wLog[n][Len(wLog[n])] = Ev("return", n, wSiblingAfter(n))
             /\ Len(wLog[n]) <= 2
        ELSE /\ Len(wLogWithoutEmits(n)) <= 4
             /\ wLogWithoutEmits(n) =
                    SubSeq(wFullProtocol(n), 1, Len(wLogWithoutEmits(n)))
             /\ wEmitsInsideMethod(n)
             /\ wPc = "done" => Len(wLogWithoutEmits(n)) \in {0, 4}

\* An element between a comment and a separator text node, serialized with
\* its open and close chunk, and both separators passed over
C23_Witness ==
    /\ wPc = "done"
    /\ wParent = [n \in WalkNodes |-> Body]
    /\ wKind[1] = "comment" /\ wKind[2] = "elt" /\ wKind[3] = "sepText"
    /\ Len(wLog[2]) = 6 /\ Len(wLog[1]) = 1 /\ Len(wLog[3]) = 1
    /\ wLog[2][5] = Ev("sepAfter", 2, Body)

rStageCount(stage) ==
    Cardinality({i \in 1..Len(rStages) : rStages[i] = stage})

\* C25: for every combination of the flags wt2html, html2wt, wt2wt,
\* html2html and selser given to the exported parse, the alternation of
\* startsAtWikitext and startsAtHTML returns a result after at most one
\* parse stage and one serialize stage, in either order; the two stages
\* never follow each other without end.
C25_AtMostOneStageOfEachKind ==
    /\ rStageCount("parse") <= 1
    /\ rStageCount("serialize") <= 1
    /\ Len(rStages) = 2 => rPc = "done"

\* The values the parameter of key k may have when _buildTemplateWT is called
tValuesOf(k) ==
    {IF c.wt # Undefined THEN c.wt ELSE serializeParamHTML(c.html) :
        c \in ParamChoices(k)}

\* The arguments that render the parameter of key k: its name is the key
\* without the whitespace around it, its value is the parameter's
tArgsOf(k) ==
    {j \in 1..Len(tArgBuf) :
        tArgBuf[j].k = TrimKey(k) /\ tArgBuf[j].v \in tValuesOf(k)}

\* C26: _buildTemplateWT emits every parameter of params once: none is left
\* out and none is emitted twice, also when the trimmed form of a key is a
\* key of pi or another key of params, and after params has been written to
\* under the trimmed key.
C26_EveryParamEmittedOnce ==
    tTemplateDone =>
        \A i \in 1..Len(tKeys) : Cardinality(tArgsOf(tKeys[i])) = 1

=============================================================================
